---------------------------- MODULE Spec2Model ----------------------------
(***************************************************************************)
(* Model of the Gecode kernel (gecode/kernel/core.hpp): computation        *)
(* spaces, their actor lists and cost queues, branchings and branching     *)
(* descriptions, variable subscription arrays, and cloning with            *)
(* forwarding pointers.                                                    *)
(*                                                                         *)
(* Memory is modelled with global addresses.  Space s owns the addresses   *)
(* Base(s) .. Base(s)+999; the process heap owns 3000...  A pointer is an  *)
(* integer, NULL is 0, and pointer comparison is integer comparison.       *)
(***************************************************************************)
EXTENDS Integers, Sequences, FiniteSets, TLC

(***************************************************************************)
(* Bounds of the model.                                                    *)
(***************************************************************************)
MaxProp == 2

MaxBranch == 2

MaxVar == 2

MaxSub == 2

MaxExec == 2

MaxObj == 2

(* number of handles, those of the two spaces included *)
MaxHnd == 4

(* number of updates of a handle that refers to an object *)
MaxOver == 1

MaxAdv == 1

(* number of advisors of the calls of advise *)
MaxCouncil == 3

(* number of entries of the subscription array of the calls of subscribe, *)
(* cancel and advise                                                      *)
MaxEntries == 3

(* greatest number of bytes or objects of a block that is reallocated *)
MaxCount == 3

(* greatest size of an object of a block that is reallocated *)
MaxObjSize == 2

(* number of bits of size_t *)
SizeBits == 5

(* number of bits of unsigned int *)
UIntBits == 4

(* size of a pointer in bytes *)
PtrBytes == 2

(* greatest number of subscriptions of a space whose arrays grow *)
MaxGrow == 5

(* number of alternatives of the descriptions the branchings make *)
NAlt == 2

(* greatest threads setting of the search options *)
MaxThreads == 3

(* greatest size passed to a search engine *)
MaxSize == 2

(***************************************************************************)
(* Program constants.                                                      *)
(***************************************************************************)
PC_MAX == 7

PC_LINEAR_LO == 4

PC_UNARY_LO == 7

ME_GEN_NONE == 0

ME_GEN_ASSIGNED == 1

PC_GEN_ASSIGNED == 0

NULL == 0

(* maximal propagation condition of the variable configuration (VIC) *)
pc_max == 1

(* number of user bits in free_and_bits of the variable configuration *)
free_bits == 1

(* a second, weaker modification event of the variable configuration *)
ME_OTHER == 2

AP_DISPOSE == 1

AP_WEAKLY == 2

(***************************************************************************)
(* Address layout.                                                         *)
(***************************************************************************)
SP == {1, 2}

Base(s) == s * 1000

Owner(a) == a \div 1000

AActors(s) == Base(s) + 1

Queue(s, c) == Base(s) + 10 + c

PropAddr(s, k) == Base(s) + 20 + k

BranAddr(s, k) == Base(s) + 40 + k

AdvAddr(s, k) == Base(s) + 50 + k

VarAddr(s, k) == Base(s) + 60 + k

SlotAddr(s, i) == Base(s) + 100 + i

ObjAddr(k) == 3000 + k

Queues(s) == {Queue(s, c) : c \in 0..PC_MAX}

Props(s) == {PropAddr(s, k) : k \in 1..MaxProp}

Brans(s) == {BranAddr(s, k) : k \in 1..MaxBranch}

Advs(s) ==
  {AdvAddr(s, k) : k \in 1..(IF MaxAdv > MaxCouncil THEN MaxAdv
                              ELSE MaxCouncil)}

Vars(s) == {VarAddr(s, k) : k \in 1..MaxVar}

(* the variable of space s that the actors of a model with one variable *)
(* subscribe to                                                         *)
FirstVar(s) == {VarAddr(s, 1)}

Objs == {ObjAddr(k) : k \in 1..(2 * MaxObj)}

Handles == 1..MaxHnd

(* the actors of space s: its propagators and its branchings *)
Actors(s) == Props(s) \cup Brans(s)

(* the address of the array of actors for forced disposal of space s *)
DArr(s) == Base(s) + 2

LinkNodes ==
  UNION {{AActors(s)} \cup Queues(s) \cup Props(s) \cup Brans(s) \cup Advs(s) :
         s \in SP}

(* capacity of the arena of subscription slots of one space *)
NSlots == 4 * (MaxSub + 2)

Slots(s) == {SlotAddr(s, i) : i \in 0..(NSlots - 1)}

(* the address in the other space with the same offset *)
Twin(a) == IF Owner(a) = 1 THEN a + 1000 ELSE a - 1000

Costs == {PC_LINEAR_LO, PC_UNARY_LO}

Events == {ME_GEN_ASSIGNED, ME_OTHER}


(***************************************************************************)
(* State.  Fields of the objects of both spaces, indexed by address.      *)
(***************************************************************************)
VARIABLES
  exists,      \* exists[s]: space s is allocated
  next,        \* ActorLink::_next of every link node
  prev,        \* ActorLink::_prev of every link node
  active,      \* Space::pc.p.active
  branch_id,   \* Space::pc.p.branch_id
  n_sub,       \* Space::pc.p.n_sub
  b_status,    \* Space::b_status
  b_commit,    \* Space::b_commit
  pst,         \* propagator slot: "free", "live", "gone" (subsumed)
  u,           \* Propagator::u (med, size or advisors)
  pcost,       \* result of the propagator's virtual cost function
  council,     \* Council::advisors of the propagator's council
  ast,         \* advisor slot: "free", "live"
  bst,         \* branching slot: "free", "live", "gone" (disposed)
  bid,         \* Branching::id
  balt,        \* result of the branching's virtual status function
  vbase,       \* VarImp::base
  ventries,    \* VarImp::entries
  vfab,        \* VarImp::free_and_bits
  vidx,        \* VarImp::u.idx, vidx[x][pc] is idx(pc), pc in 1..pc_max+1
  mem,         \* contents of the subscription slots
  brk,         \* first slot of the arena not yet handed out
  subs,        \* MemoryManager::subscriptions()
  hnd,         \* the object of a SharedHandle; the handles 1 and 2 are
               \* those held by the spaces 1 and 2
  ost,         \* shared object: "free", "live", "deleted"
  ocnt,        \* SharedHandle::Object::use_cnt
  ofwd,        \* CopiedHandle::Object::fwd
  shared,      \* the clone was made with share = true
  descs,       \* branching descriptions held by the search engine
  mode,        \* "idle", or "run" while status() is propagating
  lastOp,      \* the operation that last returned on the space
  lastRes,     \* its result
  executed,    \* propagator executions of the status() in progress
  fifo,        \* history: propagators of each cost class by enqueue time
  hist,        \* history: what the last operation on the space did
  d_fst,       \* Space::d_fst, NULL or the address of the disposal array
  d_lst,       \* Space::d_lst, as the number of entries the array can hold
  d_arr,       \* the entries of the disposal array from d_fst up to d_cur
  ap,          \* the properties the actor has made its space notice
  ndisp,       \* history: how often dispose of the actor was invoked
  n_wmp,       \* Space::n_wmp
  wmp,         \* the wmp that the last status() of the space has set
  wsince,      \* history: a weakly monotonic propagator has existed
               \* since the last status() returned
  bab,         \* a call of Search::bab: its arguments, whether the build
               \* has threads, and the engine it returned
  hlive,       \* the handles that are constructed and not destructed
  copied,      \* Space::pc.c.copied while handles are updated
  vop,         \* history: the call of advise that has just returned, the
               \* advisors it ran, and the variable and the queues
               \* before it
  overwritten, \* for every update of a handle that referred to an object,
               \* that object
  cloning,     \* whether handles are being updated for a copy (on), and
               \* then its share, the objects objs that existed when it
               \* began, and the pairs upd of a handle and the handle it
               \* was updated from
  subd,        \* history: subd[pc][a] is how often actor a has subscribed
               \* to the variable with condition pc (pc_max + 1 for an
               \* advisor) and not cancelled since
  ra           \* a call of rrealloc or realloc: its arguments and what
               \* it returned, copied and released

vars ==
  <<exists, next, prev, active, branch_id, n_sub, b_status,
    b_commit, pst, u, pcost, council, ast, bst, bid, balt, vbase,
    ventries, vfab, vidx, mem, brk, subs, hnd, ost, ocnt, ofwd, shared,
    descs, mode, lastOp, lastRes, executed, fifo, hist, d_fst, d_lst,
    d_arr, ap, ndisp, n_wmp, wmp, wsince, bab, hlive, copied,
    vop, overwritten, cloning, subd, ra>>

(* the state as one record, so that operations are functions on states *)
Cur ==
  [exists |-> exists, next |-> next, prev |-> prev,
   active |-> active, branch_id |-> branch_id, n_sub |-> n_sub,
   b_status |-> b_status, b_commit |-> b_commit, pst |-> pst, u |-> u,
   pcost |-> pcost, council |-> council, ast |-> ast, bst |-> bst,
   bid |-> bid, balt |-> balt, vbase |-> vbase, ventries |-> ventries,
   vfab |-> vfab, vidx |-> vidx, mem |-> mem, brk |-> brk, subs |-> subs,
   hnd |-> hnd, ost |-> ost, ocnt |-> ocnt, ofwd |-> ofwd,
   shared |-> shared, descs |-> descs, mode |-> mode, lastOp |-> lastOp,
   lastRes |-> lastRes, executed |-> executed, fifo |-> fifo,
   hist |-> hist, d_fst |-> d_fst, d_lst |-> d_lst, d_arr |-> d_arr,
   ap |-> ap, ndisp |-> ndisp, n_wmp |-> n_wmp, wmp |-> wmp,
   wsince |-> wsince, bab |-> bab, hlive |-> hlive, copied |-> copied,
   vop |-> vop, overwritten |-> overwritten, cloning |-> cloning,
   subd |-> subd, ra |-> ra]

Store(W) ==
  /\ exists' = W.exists
  /\ next' = W.next
  /\ prev' = W.prev
  /\ active' = W.active
  /\ branch_id' = W.branch_id
  /\ n_sub' = W.n_sub
  /\ b_status' = W.b_status
  /\ b_commit' = W.b_commit
  /\ pst' = W.pst
  /\ u' = W.u
  /\ pcost' = W.pcost
  /\ council' = W.council
  /\ ast' = W.ast
  /\ bst' = W.bst
  /\ bid' = W.bid
  /\ balt' = W.balt
  /\ vbase' = W.vbase
  /\ ventries' = W.ventries
  /\ vfab' = W.vfab
  /\ vidx' = W.vidx
  /\ mem' = W.mem
  /\ brk' = W.brk
  /\ subs' = W.subs
  /\ hnd' = W.hnd
  /\ ost' = W.ost
  /\ ocnt' = W.ocnt
  /\ ofwd' = W.ofwd
  /\ shared' = W.shared
  /\ descs' = W.descs
  /\ mode' = W.mode
  /\ lastOp' = W.lastOp
  /\ lastRes' = W.lastRes
  /\ executed' = W.executed
  /\ fifo' = W.fifo
  /\ hist' = W.hist
  /\ d_fst' = W.d_fst
  /\ d_lst' = W.d_lst
  /\ d_arr' = W.d_arr
  /\ ap' = W.ap
  /\ ndisp' = W.ndisp
  /\ n_wmp' = W.n_wmp
  /\ wmp' = W.wmp
  /\ wsince' = W.wsince
  /\ bab' = W.bab
  /\ hlive' = W.hlive
  /\ copied' = W.copied
  /\ vop' = W.vop
  /\ overwritten' = W.overwritten
  /\ cloning' = W.cloning
  /\ subd' = W.subd
  /\ ra' = W.ra

(***************************************************************************)
(* ActorLink: the doubly linked list primitives.                           *)
(***************************************************************************)
Unlink(W, a) ==
  LET p == W.prev[a]
      n == W.next[a]
  IN [W EXCEPT !.next[p] = n, !.prev[n] = p]

LinkInit(W, a) == [W EXCEPT !.next[a] = a, !.prev[a] = a]

LinkHead(W, l, a) ==
  LET n == W.next[l]
  IN [W EXCEPT !.next[l] = a, !.prev[a] = l, !.next[a] = n, !.prev[n] = a]

LinkTail(W, l, a) ==
  LET p == W.prev[l]
      W1 == [W EXCEPT !.next[a] = l, !.prev[l] = a]
  IN [W1 EXCEPT !.next[p] = a, !.prev[a] = p]

(* the members of the list with sentinel l, following next for at most *)
(* n steps                                                              *)
RECURSIVE Walk(_, _, _, _)
Walk(W, l, a, n) ==
  IF a = l \/ n = 0 \/ a \notin LinkNodes THEN <<>>
  ELSE <<a>> \o Walk(W, l, W.next[a], n - 1)

ListOf(W, l) == Walk(W, l, W.next[l], MaxProp + MaxBranch + 1)

Range(q) == {q[i] : i \in 1..Len(q)}

Without(q, a) == SelectSeq(q, LAMBDA e : e # a)

(* the list with sentinel l is a well-formed doubly linked ring *)
WellLinked(W, l) ==
  LET q == ListOf(W, l)
      ring == <<l>> \o q \o <<l>>
  IN /\ Len(q) <= MaxProp + MaxBranch
     /\ \A i \in 1..(Len(ring) - 1) :
          /\ W.next[ring[i]] = ring[i + 1]
          /\ W.prev[ring[i + 1]] = ring[i]
     /\ \A i, j \in 1..Len(q) : q[i] = q[j] => i = j

(***************************************************************************)
(* Space: failure, stability, queues.                                      *)
(***************************************************************************)
SpaceFailed(W, s) == W.active[s] = NULL

(* a variant of stable that compares with the wrong end of the queues *)
SpaceStableLax(W, s) == W.active[s] <= Queue(s, PC_MAX)

SpaceStable(W, s) == W.active[s] < Queue(s, 0)

CostOf(W, p) == W.pcost[p]

(* a variant of enqueue that puts the propagator at the head of its queue *)
EnqueueAtHead(W, s, p) ==
  LET W1 == Unlink(W, p)
      k == CostOf(W1, p)
      c == Queue(s, k)
      W2 == LinkHead(W1, c, p)
  IN [W2 EXCEPT !.active[s] = IF c > @ THEN c ELSE @,
                !.fifo[s] = [j \in 0..PC_MAX |->
                               IF j = k THEN Append(Without(@[j], p), p)
                               ELSE Without(@[j], p)]]

Enqueue(W, s, p) ==
  LET W1 == Unlink(W, p)
      k == CostOf(W1, p)
      c == Queue(s, k)
      W2 == LinkTail(W1, c, p)
  IN [W2 EXCEPT !.active[s] = IF c > @ THEN c ELSE @,
                !.fifo[s] = [j \in 0..PC_MAX |->
                               IF j = k THEN Append(Without(@[j], p), p)
                               ELSE Without(@[j], p)]]

(* a variant of fail that marks the space stable instead of failed *)
SpaceFailStable(W, s) == [W EXCEPT !.active[s] = Queue(s, 0) - 1]

SpaceFail(W, s) == [W EXCEPT !.active[s] = NULL]

(***************************************************************************)
(* Modification events and their deltas (one variable type).               *)
(***************************************************************************)
MeCombine(me1, me2) ==
  IF me1 = ME_GEN_NONE THEN me2
  ELSE IF me2 = ME_GEN_NONE THEN me1
  ELSE IF me1 < me2 THEN me1 ELSE me2

MedUpdate(med, me) == MeCombine(med, me)

(* a variant of schedule that enqueues whether or not the event is new *)
ScheduleAlways(W, s, p, me) ==
  Enqueue([W EXCEPT !.u[p] = MedUpdate(W.u[p], me)], s, p)

Schedule(W, s, p, me) ==
  LET m == MedUpdate(W.u[p], me)
  IN IF m # W.u[p] THEN Enqueue([W EXCEPT !.u[p] = m], s, p) ELSE W


(***************************************************************************)
(* Construction: Space::Space, VarImp::VarImp, SharedHandle::SharedHandle. *)
(***************************************************************************)
StableMark(s) == Queue(s, 0) - 1

(* what is recorded about the operation in progress or last returned on  *)
(* a space:                                                               *)
(*  prevRes   the result of the status() that returned right before this  *)
(*            status(), "none" if the operation before was another one    *)
(*  ran       the propagator status() has just executed                   *)
(*  higher    when ran was taken from its queue, a queue of a greater     *)
(*            cost class held a propagator                                *)
(*  oldest    the propagator enqueued earliest in the cost class of ran   *)
(*  outcome   the ExecStatus that propagate of ran returned               *)
(*  did       the id of the description given to or returned by the       *)
(*            operation, -1 if none                                       *)
(*  legal     commit was called with an alternative of its description    *)
(*  target    the branching whose commit or description was invoked       *)
(*  skipped   the branchings commit disposed of                           *)
(*  made      clone returned a clone                                      *)
(*  known     the ids of the descriptions that existed when clone was     *)
(*            called                                                      *)
(*  pre       the original space as it was when clone was called          *)
(*  wexp      a weakly monotonic propagator existed at some time since    *)
(*            the status() before this status() returned                  *)
NoHist ==
  [prevRes |-> "none", ran |-> NULL, higher |-> FALSE, oldest |-> NULL, outcome |-> "none",
   did |-> -1, legal |-> TRUE, target |-> NULL, skipped |-> {},
   made |-> FALSE, known |-> {}, pre |-> <<>>, wexp |-> FALSE]

(* one space, no actors; its variable has one of its user bits set *)
(* no call on a variable yet *)
NoOp ==
  [op |-> "none", me |-> ME_GEN_NONE, start |-> {}, log |-> <<>>,
   res |-> <<>>, ret |-> TRUE, ok |-> TRUE, pre |-> <<>>]

NoCopy == [on |-> FALSE, share |-> FALSE, objs |-> {}, upd |-> {}]

InitSpace ==
  /\ exists = [s \in SP |-> s = 1]
  /\ next = [a \in LinkNodes |->
               IF a \in {AActors(1)} \cup Queues(1) THEN a ELSE NULL]
  /\ prev = [a \in LinkNodes |->
               IF a \in {AActors(1)} \cup Queues(1) THEN a ELSE NULL]
  /\ active = [s \in SP |-> IF s = 1 THEN StableMark(1) ELSE NULL]
  /\ branch_id = [s \in SP |-> 0]
  /\ n_sub = [s \in SP |-> 0]
  /\ b_status = [s \in SP |-> IF s = 1 THEN AActors(1) ELSE NULL]
  /\ b_commit = [s \in SP |-> IF s = 1 THEN AActors(1) ELSE NULL]
  /\ pst = [p \in (Props(1) \cup Props(2)) |-> "free"]
  /\ u = [p \in (Props(1) \cup Props(2)) |-> 0]
  /\ pcost = [p \in (Props(1) \cup Props(2)) |-> 0]
  /\ council = [p \in (Props(1) \cup Props(2)) |-> NULL]
  /\ ast = [a \in (Advs(1) \cup Advs(2)) |-> "free"]
  /\ bst = [b \in (Brans(1) \cup Brans(2)) |-> "free"]
  /\ bid = [b \in (Brans(1) \cup Brans(2)) |-> 0]
  /\ balt = [b \in (Brans(1) \cup Brans(2)) |-> FALSE]
  /\ vbase = [x \in (Vars(1) \cup Vars(2)) |-> NULL]
  /\ ventries = [x \in (Vars(1) \cup Vars(2)) |-> 0]
  /\ vfab = [x \in (Vars(1) \cup Vars(2)) |-> IF Owner(x) = 1 THEN 1 ELSE 0]
  /\ vidx = [x \in (Vars(1) \cup Vars(2)) |-> [pc \in 1..(pc_max + 1) |-> 0]]
  /\ mem = [a \in (Slots(1) \cup Slots(2)) |-> NULL]
  /\ brk = [s \in SP |-> SlotAddr(s, 0)]
  /\ subs = [s \in SP |-> NULL]
  /\ hnd = [h \in Handles |-> IF h = 1 THEN ObjAddr(1) ELSE NULL]
  /\ ost = [o \in Objs |-> IF o = ObjAddr(1) THEN "live" ELSE "free"]
  /\ ocnt = [o \in Objs |-> IF o = ObjAddr(1) THEN 1 ELSE 0]
  /\ ofwd = [o \in Objs |-> NULL]
  /\ shared = FALSE
  /\ descs = {}
  /\ mode = [s \in SP |-> "idle"]
  /\ lastOp = [s \in SP |-> "none"]
  /\ lastRes = [s \in SP |-> "none"]
  /\ executed = [s \in SP |-> 0]
  /\ fifo = [s \in SP |-> [c \in 0..PC_MAX |-> <<>>]]
  /\ hist = [s \in SP |-> NoHist]
  /\ d_fst = [s \in SP |-> NULL]
  /\ d_lst = [s \in SP |-> 0]
  /\ d_arr = [s \in SP |-> <<>>]
  /\ ap = [a \in Actors(1) \cup Actors(2) |-> 0]
  /\ ndisp = [a \in Actors(1) \cup Actors(2) |-> 0]
  /\ n_wmp = [s \in SP |-> 0]
  /\ wmp = [s \in SP |-> FALSE]
  /\ wsince = [s \in SP |-> FALSE]
  /\ hlive = {1}
  /\ copied = <<>>
  /\ vop = NoOp
  /\ overwritten = <<>>
  /\ cloning = NoCopy
  /\ subd = [pc \in 0..(pc_max + 1) |-> [a \in Props(1) \cup Advs(1) |-> 0]]

(* no call of bab *)
NoBab == [threads |-> 1, sz |-> 0, has |-> FALSE, to |-> 1, engine |-> "none"]

(* no call of realloc *)
NoRealloc ==
  [kind |-> "none", st |-> 1, b |-> NULL, n |-> 0, m |-> 0, done |-> FALSE,
   ret |-> NULL, copied |-> 0, freed |-> <<NULL, 0>>]

Init == InitSpace /\ bab = NoBab /\ ra = NoRealloc

(* record the operation that returned on space s, its result and notes *)
Returned(W, s, op, res, h) ==
  [W EXCEPT !.lastOp[s] = op, !.lastRes[s] = res, !.hist[s] = h]

(***************************************************************************)
(* Posting actors: Propagator::Propagator, Branching::Branching,           *)
(* Advisor::Advisor.                                                       *)
(***************************************************************************)
FreeProp(W, s) == {p \in Props(s) : W.pst[p] = "free"}

FreeBran(W, s) == {b \in Brans(s) : W.bst[b] = "free"}

FreeAdv(W, s) == {a \in Advs(s) : W.ast[a] = "free"}

Least(S) == CHOOSE a \in S : \A b \in S : a <= b

PropagatorCtor(W, s, p, cost) ==
  LinkHead([W EXCEPT !.pst[p] = "live", !.u[p] = 0, !.pcost[p] = cost,
                     !.council[p] = NULL],
           AActors(s), p)

(* a variant of the constructor that does not advance the counter *)
BranchingCtorSameId(W, s, b, alt) ==
  LET W1 == [W EXCEPT !.bst[b] = "live", !.balt[b] = alt,
                      !.bid[b] = W.branch_id[s]]
      W2 == IF W1.b_status[s] = AActors(s)
            THEN [W1 EXCEPT !.b_status[s] = b,
                            !.b_commit[s] =
                               IF @ = AActors(s) THEN b ELSE @]
            ELSE W1
  IN LinkTail(W2, AActors(s), b)

BranchingCtor(W, s, b, alt) ==
  LET W1 == [W EXCEPT !.bst[b] = "live", !.balt[b] = alt,
                      !.bid[b] = W.branch_id[s],
                      !.branch_id[s] = @ + 1]
      W2 == IF W1.b_status[s] = AActors(s)
            THEN [W1 EXCEPT !.b_status[s] = b,
                            !.b_commit[s] =
                               IF @ = AActors(s) THEN b ELSE @]
            ELSE W1
  IN LinkTail(W2, AActors(s), b)

AdvisorCtor(W, p, a) ==
  [W EXCEPT !.ast[a] = "live", !.prev[a] = p, !.next[a] = W.council[p],
            !.council[p] = a]

AdvisorDisposed(W, a) == W.prev[a] = NULL

(***************************************************************************)
(* VarImp: the subscription array.                                         *)
(***************************************************************************)
FB == 2 ^ free_bits

VarFree(W, x) == W.vfab[x] \div FB

VarBits(W, x) == W.vfab[x] % FB

Actor(W, x, pc) ==
  IF pc = 0 THEN W.vbase[x] ELSE W.vbase[x] + W.vidx[x][pc]

ActorNonZero(W, x, pc) == W.vbase[x] + W.vidx[x][pc]

Degree(W, x) == W.ventries[x]

(* Space::alloc of m pointers: the arena hands out consecutive slots *)
AllocOk(W, s, m) == W.brk[s] + m <= SlotAddr(s, NSlots)

Alloc(W, s, m) == [W EXCEPT !.brk[s] = @ + m]

(* Space::free of n pointers at b: the block is returned to the arena *)
Free(W, b, n) ==
  [W EXCEPT !.mem = [a \in (Slots(1) \cup Slots(2)) |->
                       IF b <= a /\ a < b + n THEN NULL ELSE @[a]]]

(* a variant of the size that resize chooses: four more in every case *)
ResizeSizeMild(W, s, x) ==
  IF W.vbase[x] = NULL THEN 4 ELSE Degree(W, x) + 4

ResizeSize(W, s, x) ==
  IF W.vbase[x] = NULL THEN 4
  ELSE LET n == Degree(W, x)
       IN IF W.subs[s] <= W.vbase[x] /\ W.vbase[x] < W.subs[s] + W.n_sub[s]
          THEN n + 4 ELSE ((n + 1) * 3) \div 2

Resize(W, s, x) ==
  IF W.vbase[x] = NULL
  THEN LET b == W.brk[s]
       IN [Alloc(W, s, 4) EXCEPT !.vfab[x] = @ + 4 * FB, !.vbase[x] = b]
  ELSE LET n == Degree(W, x)
           m == ResizeSize(W, s, x)
           prop == W.brk[s]
           old == W.vbase[x]
           W1 == [Alloc(W, s, m) EXCEPT !.vfab[x] = @ + (m - n) * FB]
           W2 == [W1 EXCEPT !.mem = [a \in (Slots(1) \cup Slots(2)) |->
                                       IF prop <= a /\ a < prop + n
                                       THEN W1.mem[old + (a - prop)]
                                       ELSE @[a]]]
       IN [Free(W2, old, n) EXCEPT !.vbase[x] = prop]

(* a variant of the loop of enter that leaves the later slices in place *)
EnterShiftNone(W, x, j, pc) == W

(* the loop of enter that moves the first entry of each later slice up *)
RECURSIVE EnterShift(_, _, _, _)
EnterShift(W, x, j, pc) ==
  IF j > pc
  THEN EnterShift([W EXCEPT
                     !.mem[ActorNonZero(W, x, j + 1)] =
                        W.mem[ActorNonZero(W, x, j)],
                     !.vidx[x][j + 1] = @ + 1],
                  x, j - 1, pc)
  ELSE W

EnterProp(W, s, x, p, pc) ==
  LET W0 == [W EXCEPT !.n_sub[s] = @ + 1]
      W1 == IF VarFree(W0, x) = 0 THEN Resize(W0, s, x) ELSE W0
      W2 == [W1 EXCEPT !.vfab[x] = @ - FB]
      W3 == [W2 EXCEPT !.mem[W2.vbase[x] + W2.ventries[x]] =
                          W2.mem[ActorNonZero(W2, x, pc_max + 1)],
                       !.ventries[x] = @ + 1]
      W4 == EnterShift(W3, x, pc_max, pc)
      W5 == [W4 EXCEPT !.mem[ActorNonZero(W4, x, pc + 1)] =
                          W4.mem[Actor(W4, x, pc)],
                       !.vidx[x][pc + 1] = @ + 1]
  IN [W5 EXCEPT !.mem[Actor(W5, x, pc)] = p]

(* a variant of enter that puts the advisor with the propagators of *)
(* condition pc_max                                                *)
EnterAdvAsProp(W, s, x, a) == EnterProp(W, s, x, a, pc_max)

EnterAdv(W, s, x, a) ==
  LET W0 == [W EXCEPT !.n_sub[s] = @ + 1]
      W1 == IF VarFree(W0, x) = 0 THEN Resize(W0, s, x) ELSE W0
      W2 == [W1 EXCEPT !.vfab[x] = @ - FB]
      W3 == [W2 EXCEPT !.mem[W2.vbase[x] + W2.ventries[x]] =
                          W2.mem[ActorNonZero(W2, x, pc_max + 1)],
                       !.ventries[x] = @ + 1]
  IN [W3 EXCEPT !.mem[ActorNonZero(W3, x, pc_max + 1)] = a]

(* enter can take its slot: a free one, or one of a block resize gets *)
EnterOk(W, s, x) ==
  VarFree(W, x) > 0
    \/ AllocOk(W, s, ResizeSize([W EXCEPT !.n_sub[s] = @ + 1], s, x))

(* a variant of subscribe that enters the propagator of an assigned *)
(* variable too                                                     *)
SubscribePropEnter(W, s, x, p, pc, assigned, me, schedule) ==
  LET W1 == EnterProp(W, s, x, p, pc)
  IN IF assigned
     THEN IF schedule THEN Schedule(W1, s, p, ME_GEN_ASSIGNED) ELSE W1
     ELSE IF schedule /\ pc # PC_GEN_ASSIGNED
          THEN Schedule(W1, s, p, me) ELSE W1

SubscribeProp(W, s, x, p, pc, assigned, me, schedule) ==
  IF assigned
  THEN IF schedule THEN Schedule(W, s, p, ME_GEN_ASSIGNED) ELSE W
  ELSE LET W1 == EnterProp(W, s, x, p, pc)
       IN IF schedule /\ pc # PC_GEN_ASSIGNED
          THEN Schedule(W1, s, p, me) ELSE W1

SubscribeAdv(W, s, x, a, assigned) ==
  IF ~assigned THEN EnterAdv(W, s, x, a) ELSE W

(* schedule(home,pc1,pc2,me): the propagators of the slices pc1..pc2, *)
(* from the last entry down to the first                              *)
RECURSIVE ScheduleDown(_, _, _, _, _)
ScheduleDown(W, s, ptr, b, me) ==
  IF ptr > b
  THEN ScheduleDown(Schedule(W, s, W.mem[ptr - 1], me), s, ptr - 1, b, me)
  ELSE W

(* a variant that schedules the propagators of every condition *)
ScheduleRangeAll(W, s, x, pc1, pc2, me) ==
  ScheduleDown(W, s, ActorNonZero(W, x, pc_max + 1), Actor(W, x, 0), me)

ScheduleRange(W, s, x, pc1, pc2, me) ==
  ScheduleDown(W, s, ActorNonZero(W, x, pc2 + 1), Actor(W, x, pc1), me)


(* the slots of the slice of condition pc; pc_max+1 is the advisor slice *)
Slice(W, x, pc) ==
  Actor(W, x, pc) ..
    ((IF pc = pc_max + 1 THEN W.vbase[x] + W.ventries[x]
      ELSE ActorNonZero(W, x, pc + 1)) - 1)

(* a variant of the loop of remove that leaves the later slices in place *)
RemoveShiftNone(W, x, j) == W

(* the loop of remove that moves the last entry of each later slice down *)
RECURSIVE RemoveShift(_, _, _)
RemoveShift(W, x, j) ==
  IF j < pc_max + 1
  THEN RemoveShift([W EXCEPT
                      !.mem[ActorNonZero(W, x, j) - 1] =
                         W.mem[ActorNonZero(W, x, j + 1) - 1],
                      !.vidx[x][j] = @ - 1],
                   x, j + 1)
  ELSE W

RemoveProp(W, s, x, p, pc) ==
  LET f == Least({a \in (Slots(1) \cup Slots(2)) : a >= Actor(W, x, pc) /\ W.mem[a] = p})
      W1 == [W EXCEPT !.mem[f] = W.mem[ActorNonZero(W, x, pc + 1) - 1]]
      W2 == RemoveShift(W1, x, pc + 1)
      W3 == [W2 EXCEPT !.mem[ActorNonZero(W2, x, pc_max + 1) - 1] =
                          W2.mem[W2.vbase[x] + W2.ventries[x] - 1]]
  IN [W3 EXCEPT !.vidx[x][pc_max + 1] = @ - 1,
                !.ventries[x] = @ - 1,
                !.vfab[x] = @ + FB,
                !.n_sub[s] = @ - 1]

RemoveAdv(W, s, x, a) ==
  LET f == Least({t \in (Slots(1) \cup Slots(2)) :
                    t >= ActorNonZero(W, x, pc_max + 1) /\ W.mem[t] = a})
      W1 == [W EXCEPT !.ventries[x] = @ - 1]
      W2 == [W1 EXCEPT !.mem[f] = W1.mem[W1.vbase[x] + W1.ventries[x]]]
  IN [W2 EXCEPT !.vfab[x] = @ + FB, !.n_sub[s] = @ - 1]

CancelProp(W, s, x, p, pc, assigned) ==
  IF ~assigned THEN RemoveProp(W, s, x, p, pc) ELSE W

CancelAdv(W, s, x, a, assigned) ==
  IF ~assigned THEN RemoveAdv(W, s, x, a) ELSE W

(* the subscriptions <<x, pc>> that hold actor a in space s *)
Subscriptions(W, s, a) ==
  {xp \in Vars(s) \X (0..(pc_max + 1)) :
     \E t \in Slice(W, xp[1], xp[2]) : W.mem[t] = a}

(***************************************************************************)
(* Actor properties: Space::notice and Space::ignore.                      *)
(***************************************************************************)
(* p & b for a property b *)
HasProp(p, b) == (p \div b) % 2 = 1

(* Space::d_resize: the array of actors gets room for more entries *)
DResize(W, s) ==
  [W EXCEPT !.d_fst[s] = DArr(s),
            !.d_lst[s] = IF @ = 0 THEN 4 ELSE 2 * @]

SpaceNotice(W, s, a, p) ==
  LET W1 == IF HasProp(p, AP_DISPOSE)
            THEN LET W0 == IF Len(W.d_arr[s]) = W.d_lst[s]
                           THEN DResize(W, s) ELSE W
                 IN [W0 EXCEPT !.d_arr[s] = Append(@, a)]
            ELSE W
  IN IF HasProp(p, AP_WEAKLY)
     THEN [W1 EXCEPT !.n_wmp[s] = IF @ = 0 THEN 2 ELSE @ + 1]
     ELSE W1

(* a variant of ignore that leaves the actor in the array *)
SpaceIgnoreKeep(W, s, a, p) ==
  IF HasProp(p, AP_WEAKLY)
  THEN [W EXCEPT !.n_wmp[s] = IF @ = 2 THEN 0 ELSE @ - 1]
  ELSE W

SpaceIgnore(W, s, a, p) ==
  LET q == W.d_arr[s]
      W1 == IF HasProp(p, AP_DISPOSE) /\ W.d_fst[s] # NULL
            THEN LET f == Least({i \in 1..Len(q) : q[i] = a})
                 IN [W EXCEPT !.d_arr[s] =
                       SubSeq([q EXCEPT ![f] = q[Len(q)]], 1, Len(q) - 1)]
            ELSE W
  IN IF HasProp(p, AP_WEAKLY)
     THEN [W1 EXCEPT !.n_wmp[s] = IF @ = 2 THEN 0 ELSE @ - 1]
     ELSE W1

(* Actor::dispose as an actor implements it that has made its space      *)
(* notice properties: a property must be ignored before the actor is     *)
(* disposed                                                              *)
ActorDispose(W, s, a) ==
  [SpaceIgnore(W, s, a, W.ap[a]) EXCEPT !.ndisp[a] = @ + 1]

(***************************************************************************)
(* Propagator::dispose as propagators implement it: the propagator cancels *)
(* its subscriptions and those of its advisors and disposes its council.   *)
(***************************************************************************)
AdvisorDispose(W, a) ==
  LET W1 == [W EXCEPT !.prev[a] = NULL]
      n == W1.next[a]
  IN IF n # NULL /\ AdvisorDisposed(W1, n)
     THEN [W1 EXCEPT !.next[a] = W1.next[n]] ELSE W1

RECURSIVE CancelAllAdv(_, _, _)
CancelAllAdv(W, s, a) ==
  IF Subscriptions(W, s, a) = {} THEN W
  ELSE LET xp == CHOOSE c \in Subscriptions(W, s, a) : TRUE
       IN CancelAllAdv(CancelAdv(W, s, xp[1], a, FALSE), s, a)

RECURSIVE CouncilDispose(_, _, _)
CouncilDispose(W, s, a) ==
  IF a = NULL THEN W
  ELSE LET W1 == IF ~AdvisorDisposed(W, a)
                 THEN AdvisorDispose(CancelAllAdv(W, s, a), a) ELSE W
       IN CouncilDispose(W1, s, W1.next[a])

RECURSIVE CancelAllProp(_, _, _)
CancelAllProp(W, s, p) ==
  IF Subscriptions(W, s, p) = {} THEN W
  ELSE LET xp == CHOOSE c \in Subscriptions(W, s, p) : TRUE
       IN CancelAllProp(CancelProp(W, s, xp[1], p, xp[2], FALSE), s, p)

PropagatorDispose(W, s, p) ==
  CouncilDispose(CancelAllProp(ActorDispose(W, s, p), s, p), s, W.council[p])


(***************************************************************************)
(* Space::status.  _status propagates until fixpoint or failure and then   *)
(* looks for a branching with alternatives.                                *)
(***************************************************************************)
QueueEmpty(W, q) == W.next[q] = q

(* walk active down to the first queue that holds a propagator *)
RECURSIVE Slide(_, _)
Slide(W, s) ==
  IF W.active[s] >= Queue(s, 0) /\ QueueEmpty(W, W.active[s])
  THEN Slide([W EXCEPT !.active[s] = @ - 1], s)
  ELSE W

(* a variant of the scan that disposes of the branchings it passes *)
RECURSIVE ScanBranchingsDispose(_, _)
ScanBranchingsDispose(W, s) ==
  IF W.b_status[s] = AActors(s) \/ W.balt[W.b_status[s]] THEN W
  ELSE LET b == W.b_status[s]
           W1 == Unlink([W EXCEPT !.b_status[s] = W.next[b]], b)
       IN ScanBranchingsDispose([W1 EXCEPT !.bst[b] = "gone",
                                           !.next[b] = NULL,
                                           !.prev[b] = NULL], s)

(* advance b_status to the first branching that has alternatives left *)
RECURSIVE ScanBranchings(_, _)
ScanBranchings(W, s) ==
  IF W.b_status[s] = AActors(s) \/ W.balt[W.b_status[s]] THEN W
  ELSE ScanBranchings([W EXCEPT !.b_status[s] = W.next[@]], s)

(* status() returns res: the wrapper around _status *)
(* the space has a weakly monotonic propagator *)
HasWeakly(W, s) ==
  \E a \in Actors(s) : HasProp(W.ap[a], AP_WEAKLY) /\ W.ndisp[a] = 0

StatusReturn(W, s, res) ==
  [W EXCEPT !.mode[s] = "idle", !.lastOp[s] = "status", !.lastRes[s] = res,
            !.executed[s] = 0,
            !.wmp[s] = W.n_wmp[s] > 0,
            !.n_wmp[s] = IF @ = 1 THEN 0 ELSE @,
            !.wsince[s] = HasWeakly(W, s),
            !.hist[s] = [NoHist EXCEPT !.prevRes = W.hist[s].prevRes,
                                       !.wexp = W.wsince[s]]]

StatusStable(W, s) ==
  LET W1 == ScanBranchings(W, s)
  IN StatusReturn(W1, s, IF W1.b_status[s] = AActors(s)
                         THEN "SS_SOLVED" ELSE "SS_BRANCH")

(* the end of _status: the space is failed or stable *)
StatusEnd(W, s) ==
  IF SpaceFailed(W, s) THEN StatusReturn(W, s, "SS_FAILED")
  ELSE StatusStable(W, s)

(* the begin of _status, up to the first propagator to execute *)
StatusBegin(W, s) ==
  LET W0 == [W EXCEPT !.executed[s] = 0,
                      !.hist[s] = [NoHist EXCEPT !.prevRes =
                                     IF W.lastOp[s] = "status"
                                     THEN W.lastRes[s] ELSE "none"]]
  IN IF SpaceFailed(W0, s) THEN StatusEnd(W0, s)
     ELSE LET W1 == Slide(W0, s)
          IN IF SpaceStable(W1, s) THEN StatusEnd(W1, s)
             ELSE [W1 EXCEPT !.mode[s] = "run", !.lastOp[s] = "status",
                             !.lastRes[s] = "none"]

(* the propagator at the head of the active queue, about to be executed *)
Picked(W, s) == W.next[W.active[s]]

(* what propagate and commit do to the space besides returning a status: *)
(* eff is <<>> or <<x, me>>, a modification of variable x with event me, *)
(* which schedules the subscribed propagators; exh is NULL or a          *)
(* branching that has no alternatives afterwards                         *)
FirstCond(me) == IF me = ME_GEN_ASSIGNED THEN PC_GEN_ASSIGNED ELSE 1

SideEffect(W, s, eff, exh) ==
  LET W1 == IF eff = <<>> THEN W
            ELSE ScheduleRange(W, s, eff[1], FirstCond(eff[2]), pc_max, eff[2])
  IN IF exh = NULL THEN W1 ELSE [W1 EXCEPT !.balt[exh] = FALSE]

Leave(W, s, p) ==
  [W EXCEPT !.fifo[s] = [j \in 0..PC_MAX |-> Without(@[j], p)]]

(* ES_SUBSUMED(p,size): record the size in the union *)
EsSubsumedSize(W, p, size) == [W EXCEPT !.u[p] = size]

(* a variant of ES_SUBSUMED(p,home) that does not dispose the propagator *)
EsSubsumedKeep(W, s, p) == [W EXCEPT !.u[p] = 1]

(* ES_SUBSUMED(p,home): dispose and record the size in the union *)
EsSubsumed(W, s, p) == [PropagatorDispose(W, s, p) EXCEPT !.u[p] = 1]

(* _status for a subsumed propagator: it is unlinked and its memory, of *)
(* the size in the union, is given back                                 *)
Reclaim(W, s, p) ==
  LET W1 == Unlink(Leave(W, s, p), p)
  IN [W1 EXCEPT !.pst[p] = "gone", !.u[p] = 0,
                !.next[p] = NULL, !.prev[p] = NULL]

EsFixPartial(W, p, med) == [W EXCEPT !.u[p] = med]

(* a variant of ES_NOFIX_PARTIAL that drops the events accumulated so far *)
EsNofixPartialSet(W, p, med) == [W EXCEPT !.u[p] = med]

EsNofixPartial(W, p, med) == [W EXCEPT !.u[p] = MeCombine(@, med)]

(* the part of _status after propagate of p has returned out; the       *)
(* outcome ES_SUBSUMED is made by ES_SUBSUMED(p,home),                   *)
(* ES_SUBSUMED_DISPOSE by ES_SUBSUMED(p,dispose(home)) and               *)
(* ES_SUBSUMED_SIZEOF by ES_SUBSUMED(p,sizeof(p))                        *)
AfterPropagate(W, s, p, out, med) ==
  CASE out = "ES_FAILED" -> SpaceFail(W, s)
    [] out = "ES_FIX" ->
         LinkHead(Unlink(Leave([W EXCEPT !.u[p] = 0], s, p), p), AActors(s), p)
    [] out = "ES_NOFIX" -> Enqueue(W, s, p)
    [] out = "ES_SUBSUMED" -> Reclaim(EsSubsumed(W, s, p), s, p)
    [] out = "ES_SUBSUMED_DISPOSE" ->
         Reclaim(EsSubsumedSize(PropagatorDispose(W, s, p), p, 1), s, p)
    [] out = "ES_SUBSUMED_SIZEOF" -> Reclaim(EsSubsumedSize(W, p, 1), s, p)
    [] out = "ES_FIX_PARTIAL" -> Enqueue(EsFixPartial(W, p, med), s, p)
    [] out = "ES_NOFIX_PARTIAL" -> Enqueue(EsNofixPartial(W, p, med), s, p)

StatusExec(W, s, eff, exh, out, med) ==
  LET p == Picked(W, s)
      k == W.active[s] - Queue(s, 0)
      W1 == [W EXCEPT !.executed[s] = @ + 1,
                      !.u[p] = 0,
                      !.hist[s].ran = p,
                      !.hist[s].higher =
                         \E c \in (k + 1)..PC_MAX : ~QueueEmpty(W, Queue(s, c)),
                      !.hist[s].oldest =
                         IF W.fifo[s][k] = <<>> THEN NULL
                         ELSE W.fifo[s][k][1],
                      !.hist[s].outcome = out]
      W2 == SideEffect(W1, s, eff, exh)
      W3 == AfterPropagate(W2, s, p, out, med)
  IN IF out = "ES_FAILED" THEN W3 ELSE Slide(W3, s)

(***************************************************************************)
(* Space::description, BranchingDesc, Space::commit, Space::fail.          *)
(***************************************************************************)
BranchingDesc(W, b, a) == [id |-> W.bid[b], alt |-> a]

(* a variant of alternatives that is off by one *)
AlternativesOffByOne(d) == d.alt + 1

Alternatives(d) == d.alt

DescId(d) == d.id

(* a variant of description without the test for stability *)
DescriptionUnchecked(W, s) ==
  IF W.b_status[s] = AActors(s)
  THEN Returned(W, s, "description", "undefined", NoHist)
  ELSE LET b == W.b_status[s]
           d == BranchingDesc(W, b, NAlt)
       IN Returned([W EXCEPT !.descs = @ \cup {d}], s, "description", "desc",
                   [NoHist EXCEPT !.target = b, !.did = DescId(d)])

Description(W, s) ==
  IF ~SpaceStable(W, s)
  THEN Returned(W, s, "description", "SpaceNotStable", NoHist)
  ELSE IF W.b_status[s] = AActors(s)
  THEN Returned(W, s, "description", "undefined", NoHist)
  ELSE LET b == W.b_status[s]
           d == BranchingDesc(W, b, NAlt)
       IN Returned([W EXCEPT !.descs = @ \cup {d}], s, "description", "desc",
                   [NoHist EXCEPT !.target = b, !.did = DescId(d)])

(* a variant of the loop of commit that leaves b_status where it is *)
RECURSIVE CommitSkipOnly(_, _, _)
CommitSkipOnly(W, s, id) ==
  IF W.b_commit[s] = AActors(s) \/ W.bid[W.b_commit[s]] = id THEN W
  ELSE LET b == W.b_commit[s]
           W1 == [W EXCEPT !.b_commit[s] = W.next[b]]
           W3 == Unlink(W1, b)
       IN CommitSkipOnly([W3 EXCEPT !.bst[b] = "gone", !.next[b] = NULL,
                                    !.prev[b] = NULL, !.balt[b] = FALSE,
                                    !.hist[s].skipped = @ \cup {b}],
                         s, id)

(* commit drops the branchings at b_commit whose id differs from id *)
RECURSIVE CommitSkip(_, _, _)
CommitSkip(W, s, id) ==
  IF W.b_commit[s] = AActors(s) \/ W.bid[W.b_commit[s]] = id THEN W
  ELSE LET b == W.b_commit[s]
           W1 == [W EXCEPT !.b_commit[s] = W.next[b]]
           W2 == IF b = W1.b_status[s]
                 THEN [W1 EXCEPT !.b_status[s] = W1.b_commit[s]] ELSE W1
           W3 == Unlink(W2, b)
       IN CommitSkip([W3 EXCEPT !.bst[b] = "gone", !.next[b] = NULL,
                                !.prev[b] = NULL, !.balt[b] = FALSE,
                                !.hist[s].skipped = @ \cup {b}],
                     s, id)

Commit(W, s, d, a, eff, exh, out) ==
  LET h == [NoHist EXCEPT !.did = d.id, !.legal = a < d.alt]
      W0 == [W EXCEPT !.hist[s] = h]
  IN IF a >= Alternatives(d)
     THEN Returned(W0, s, "commit", "SpaceIllegalAlternative", h)
     ELSE IF W0.b_commit[s] = AActors(s)
     THEN Returned(W0, s, "commit", "SpaceNoBranching", h)
     ELSE LET W1 == CommitSkip(W0, s, DescId(d))
              b == W1.b_commit[s]
          IN IF b = AActors(s)
             THEN Returned(W1, s, "commit", "SpaceNoBranching", W1.hist[s])
             ELSE LET W2 == SideEffect(W1, s, eff, IF exh THEN b ELSE NULL)
                      W3 == IF out = "ES_FAILED" THEN SpaceFail(W2, s) ELSE W2
                  IN Returned(W3, s, "commit", out,
                              [W1.hist[s] EXCEPT !.target = b])

(***************************************************************************)
(* Cloning.  The copy phase builds the clone from the original and leaves  *)
(* forwarding pointers in the original (the prev link of every actor and   *)
(* advisor, the marked base of every variable, fwd of every copied         *)
(* object); the update phase builds the clone's subscription arrays; the   *)
(* reset phase takes the forwarding pointers out of the original again.    *)
(***************************************************************************)
(* Support::mark sets the low bit of an aligned pointer; addresses here    *)
(* are not aligned, so the mark is a bit above every address               *)
MarkBit == 100000

Mark(a) == a + MarkBit

Marked(b) == b >= MarkBit

Unmark(b) == IF Marked(b) THEN b - MarkBit ELSE b

Copied(W, x) == Marked(W.vbase[x])

Forward(W, x) == Unmark(W.vbase[x])

PropagatorClone(W, p, c) ==
  [W EXCEPT !.pst[c] = "live", !.u[c] = NULL, !.pcost[c] = W.pcost[p],
            !.council[c] = NULL, !.prev[p] = c]

BranchingCloneFreshId(W, b, c) ==
  [W EXCEPT !.bst[c] = "live", !.bid[c] = W.bid[b] + 1,
            !.balt[c] = W.balt[b], !.prev[b] = c]

BranchingClone(W, b, c) ==
  [W EXCEPT !.bst[c] = "live", !.bid[c] = W.bid[b],
            !.balt[c] = W.balt[b], !.prev[b] = c]

(* Council::update.  a_f is a reference to a link field: the advisors     *)
(* field of the council of propagator f, or the next field of an advisor  *)
RECURSIVE SkipDisposed(_, _)
SkipDisposed(W, a) ==
  IF a # NULL /\ AdvisorDisposed(W, a) THEN SkipDisposed(W, W.next[a]) ELSE a

Deref(W, r) == IF r[1] = "council" THEN W.council[r[2]] ELSE W.next[r[2]]

Assign(W, r, v) ==
  IF r[1] = "council" THEN [W EXCEPT !.council[r[2]] = v]
  ELSE [W EXCEPT !.next[r[2]] = v]

RECURSIVE CouncilCopy(_, _, _, _)
CouncilCopy(W, a_f, a_t, p_t) ==
  LET o == Deref(W, a_f)
  IN IF o = NULL THEN [w |-> W, a_t |-> a_t]
     ELSE IF AdvisorDisposed(W, o)
     THEN CouncilCopy(Assign(W, a_f, W.next[o]), a_f, a_t, p_t)
     ELSE LET a == Twin(o)
              W1 == [W EXCEPT !.ast[a] = "live", !.prev[a] = p_t,
                              !.prev[o] = a, !.next[a] = a_t]
          IN CouncilCopy(W1, <<"next", o>>, a, p_t)

CouncilUpdate(W, t, f) ==
  LET W1 == [W EXCEPT !.council[f] = SkipDisposed(W, @)]
  IN IF W1.council[f] = NULL THEN W1
     ELSE LET p_f == W1.prev[W1.council[f]]
              p_t == W1.prev[p_f]
              r == CouncilCopy(W1, <<"council", f>>, NULL, p_t)
          IN [r.w EXCEPT !.council[t] = r.a_t,
                         !.u[p_f] = r.w.council[f]]

(* Space::Space(bool, Space&): every actor of the original is copied by   *)
(* its copy function and linked at the tail of the clone's actor list     *)
ActorCopy(W, c, a) ==
  LET t == Twin(a)
      W1 == IF a \in (Props(1) \cup Props(2))
            THEN CouncilUpdate(PropagatorClone(W, a, t), t, a)
            ELSE BranchingClone(W, a, t)
  IN LinkTail(W1, AActors(c), t)

RECURSIVE CopyActors(_, _, _)
CopyActors(W, c, q) ==
  IF q = <<>> THEN W
  ELSE CopyActors(ActorCopy(W, c, Head(q)), c, Tail(q))

Fwd(W, s, c, b) == IF b = AActors(s) THEN AActors(c) ELSE W.prev[b]

SpaceCloneCtor(W, s, c) ==
  LET W0 == LinkInit([W EXCEPT !.exists[c] = TRUE], AActors(c))
      W1 == CopyActors(W0, c, ListOf(W0, AActors(s)))
  IN [W1 EXCEPT !.b_status[c] = Fwd(W1, s, c, W1.b_status[s]),
                !.b_commit[c] = Fwd(W1, s, c, W1.b_commit[s])]

(* the union of VarImp: next lies over idx[0], and over idx[1] too where  *)
(* a pointer is wider than an unsigned int (wide); the low word of the    *)
(* pointer is the address, the high word is 0                             *)
NextOverlay(idx, n, wide) ==
  [pc \in DOMAIN idx |-> IF pc = 1 THEN n
                         ELSE IF pc = 2 /\ wide THEN 0 ELSE idx[pc]]

(* a variant of the cloning constructor that does not copy entries and *)
(* idx, so that the clone has no subscriptions                         *)
VarImpCloneEmpty(K, x, wide) ==
  LET W == K.w
      c == Twin(x)
      noidx == W.vbase[x] = NULL
      reg == IF noidx THEN K.vars_noidx ELSE K.vars_u
      W1 == [W EXCEPT !.vfab[c] = VarBits(W, x), !.vbase[c] = W.vbase[x],
                      !.ventries[c] = 0,
                      !.vidx[c] = [pc \in DOMAIN W.vidx[x] |-> 0]]
      W2 == [W1 EXCEPT !.vbase[x] = Mark(c),
                       !.vidx[x] = NextOverlay(@, reg, wide)]
  IN [K EXCEPT !.w = W2,
               !.vars_noidx = IF noidx THEN x ELSE @,
               !.vars_u = IF noidx THEN @ ELSE x]

(* K.w is the state, K.vars_u and K.vars_noidx are the heads of the lists *)
(* of registered originals, K.copied is the list of copied objects       *)
VarImpClone(K, x, wide) ==
  LET W == K.w
      c == Twin(x)
      noidx == W.vbase[x] = NULL
      reg == IF noidx THEN K.vars_noidx ELSE K.vars_u
      W1 == [W EXCEPT !.vfab[c] = VarBits(W, x), !.vbase[c] = W.vbase[x],
                      !.ventries[c] = W.ventries[x], !.vidx[c] = W.vidx[x]]
      W2 == [W1 EXCEPT !.vbase[x] = Mark(c),
                       !.vidx[x] = NextOverlay(@, reg, wide)]
  IN [K EXCEPT !.w = W2,
               !.vars_noidx = IF noidx THEN x ELSE @,
               !.vars_u = IF noidx THEN @ ELSE x]

(* the variables of the space are updated; the first encounter of a *)
(* variable makes and registers its copy                            *)
RECURSIVE CopyVars(_, _, _)
CopyVars(K, q, wide) ==
  IF q = <<>> THEN K
  ELSE CopyVars(IF Copied(K.w, Head(q)) THEN K
                ELSE VarImpClone(K, Head(q), wide),
                Tail(q), wide)

FreeObj(W) == {o \in Objs : W.ost[o] = "free"}

(* Object::copy: a new object, nobody refers to it yet *)
ObjectCopy(W, n) == [W EXCEPT !.ost[n] = "live", !.ocnt[n] = 0, !.ofwd[n] = NULL]

(* a variant of update that does not look at the forwarding pointer *)
CopiedHandleUpdateNoFwd(K, c, s) ==
  LET W == K.w
      o == W.hnd[s]
  IN IF o = NULL THEN [K EXCEPT !.w.hnd[c] = NULL]
     ELSE LET n == Least(FreeObj(W))
              W1 == ObjectCopy(W, n)
          IN [K EXCEPT !.w = [W1 EXCEPT !.hnd[c] = n, !.ofwd[o] = n],
                       !.copied = <<o>> \o @]

CopiedHandleUpdate(K, c, s) ==
  LET W == K.w
      o == W.hnd[s]
  IN IF o = NULL THEN [K EXCEPT !.w.hnd[c] = NULL]
     ELSE IF W.ofwd[o] # NULL THEN [K EXCEPT !.w.hnd[c] = W.ofwd[o]]
     ELSE LET n == Least(FreeObj(W))
              W1 == ObjectCopy(W, n)
          IN [K EXCEPT !.w = [W1 EXCEPT !.hnd[c] = n, !.ofwd[o] = n],
                       !.copied = <<o>> \o @]

SharedHandleSubscribe(W, s) ==
  IF W.hnd[s] # NULL THEN [W EXCEPT !.ocnt[W.hnd[s]] = @ + 1] ELSE W

SharedHandleCancel(W, s) ==
  LET o == W.hnd[s]
      W1 == IF o # NULL THEN [W EXCEPT !.ocnt[o] = @ - 1] ELSE W
      W2 == IF o # NULL /\ W1.ocnt[o] = 0
            THEN [W1 EXCEPT !.ost[o] = "free", !.ofwd[o] = NULL] ELSE W1
  IN [W2 EXCEPT !.hnd[s] = NULL]

SharedHandleUpdateSharing(K, c, s, share) ==
  IF K.w.hnd[s] = NULL THEN [K EXCEPT !.w.hnd[c] = NULL]
  ELSE [K EXCEPT !.w = SharedHandleSubscribe(
                          [K.w EXCEPT !.hnd[c] = K.w.hnd[s]], c)]

SharedHandleUpdate(K, c, s, share) ==
  IF K.w.hnd[s] = NULL THEN [K EXCEPT !.w.hnd[c] = NULL]
  ELSE IF share
  THEN [K EXCEPT !.w = SharedHandleSubscribe(
                          [K.w EXCEPT !.hnd[c] = K.w.hnd[s]], c)]
  ELSE LET K1 == CopiedHandleUpdate(K, c, s)
       IN [K1 EXCEPT !.w = SharedHandleSubscribe(K1.w, c)]

(* SharedHandle::Object::Object, CopiedHandle::Object::Object *)
ObjectCtor(W, n) ==
  [W EXCEPT !.ost[n] = "live", !.ocnt[n] = 0, !.ofwd[n] = NULL]

(* SharedHandle::SharedHandle(so), and SharedHandle::SharedHandle(void) *)
(* for so = NULL                                                         *)
SharedHandleCtor(W, h, so) ==
  SharedHandleSubscribe([W EXCEPT !.hnd[h] = so, !.hlive = @ \cup {h}], h)

(* SharedHandle::SharedHandle(sh) *)
SharedHandleCopyCtor(W, h, sh) ==
  SharedHandleSubscribe([W EXCEPT !.hnd[h] = W.hnd[sh],
                                  !.hlive = @ \cup {h}], h)

(* SharedHandle::operator = *)
SharedHandleAssign(W, h, sh) ==
  IF sh # h
  THEN LET W1 == SharedHandleCancel(W, h)
       IN SharedHandleSubscribe([W1 EXCEPT !.hnd[h] = W1.hnd[sh]], h)
  ELSE W

(* a variant of object(n) without the test for the object of the handle *)
SharedHandleObjectAlways(W, h, n) ==
  SharedHandleSubscribe([SharedHandleCancel(W, h) EXCEPT !.hnd[h] = n], h)

(* SharedHandle::object(n) *)
SharedHandleObject(W, h, n) ==
  IF n # W.hnd[h]
  THEN SharedHandleSubscribe([SharedHandleCancel(W, h) EXCEPT !.hnd[h] = n], h)
  ELSE W

(* SharedHandle::~SharedHandle *)
SharedHandleDtor(W, h) ==
  [SharedHandleCancel(W, h) EXCEPT !.hlive = @ \ {h}]

(* a variant of update that leaves the forwarding pointer and the next  *)
(* link in the original                                                *)
VarImpUpdateKeepMark(W, c, x, sub, wide) ==
  LET f == W.vbase[c]
      n == Degree(W, c)
  IN [W EXCEPT !.vbase[c] = sub,
               !.mem = [a \in (Slots(1) \cup Slots(2)) |->
                          IF sub <= a /\ a < sub + n
                          THEN W.prev[W.mem[f + (a - sub)]]
                          ELSE @[a]]]

(* VarImp::update(x, sub) of the clone c of x *)
VarImpUpdate(W, c, x, sub, wide) ==
  LET W1 == [W EXCEPT !.vbase[x] = W.vbase[c],
                      !.vidx[x][1] = W.vidx[c][1],
                      !.vidx[x][2] = IF pc_max > 0 /\ wide
                                     THEN W.vidx[c][2] ELSE @]
      f == W1.vbase[x]
      n == Degree(W1, x)
  IN [W1 EXCEPT !.vbase[c] = sub,
                !.mem = [a \in (Slots(1) \cup Slots(2)) |->
                           IF sub <= a /\ a < sub + n
                           THEN W1.prev[W1.mem[f + (a - sub)]]
                           ELSE @[a]]]

(* VarImp::next of a copied original: the link that lies over idx *)
VarNext(W, x) == W.vidx[x][1]

(* VarImp::update(home, sub): the registered originals, last one first *)
RECURSIVE UpdateVars(_, _, _, _)
UpdateVars(W, x, sub, wide) ==
  IF x = NULL THEN W
  ELSE LET n == VarNext(W, x)
           W1 == VarImpUpdate(W, Forward(W, x), x, sub, wide)
       IN UpdateVars(W1, n, sub + Degree(W1, x), wide)

(* the originals without subscription array get base and idx back *)
RECURSIVE UpdateNoIdx(_, _, _)
UpdateNoIdx(W, x, wide) ==
  IF x = NULL THEN W
  ELSE LET n == VarNext(W, x)
           c == Forward(W, x)
       IN UpdateNoIdx([W EXCEPT !.vbase[x] = W.vbase[c],
                                !.vidx[x][1] = W.vidx[c][1],
                                !.vidx[x][2] = IF pc_max > 0 /\ wide
                                               THEN W.vidx[c][2] ELSE @],
                      n, wide)

(* the reset of the actors: prev links the list again, and the advisors   *)
(* entered in u.advisors get their propagator back                        *)
(* a variant of the reset that leaves the forwarding pointers in the *)
(* advisors                                                         *)
ResetAdvisorsNone(W, p, a) == W

RECURSIVE ResetAdvisors(_, _, _)
ResetAdvisors(W, p, a) ==
  IF a = NULL THEN W
  ELSE ResetAdvisors([W EXCEPT !.prev[a] = p], p, W.next[a])

RECURSIVE ResetActors(_, _, _)
ResetActors(W, p_a, q) ==
  IF q = <<>> THEN W
  ELSE LET c_a == Head(q)
           W1 == IF c_a \in (Props(1) \cup Props(2)) /\ W.u[c_a] # NULL
                 THEN [ResetAdvisors(W, c_a, W.u[c_a]) EXCEPT !.u[c_a] = NULL]
                 ELSE W
       IN ResetActors([W1 EXCEPT !.prev[c_a] = p_a], c_a, Tail(q))

RECURSIVE ResetCopied(_, _)
ResetCopied(W, q) ==
  IF q = <<>> THEN W
  ELSE ResetCopied([W EXCEPT !.ofwd[Head(q)] = NULL], Tail(q))

(* the clone goes from cloning to propagation: empty queues, stable      *)
CloneFinish(W, s, c) ==
  LET W1 == [W EXCEPT
               !.next = [a \in LinkNodes |->
                           IF a \in Queues(c) THEN a ELSE @[a]],
               !.prev = [a \in LinkNodes |->
                           IF a \in Queues(c) THEN a ELSE @[a]]]
  IN [W1 EXCEPT !.active[c] = StableMark(c),
                !.branch_id[c] = W.branch_id[s],
                !.n_sub[c] = W.n_sub[s]]

(* the variables the space holds, in the order its copy function *)
(* updates them                                                  *)
RootVars(s) == [k \in 1..MaxVar |-> VarAddr(s, k)]

(* what clone must leave as it was in the original space s *)
Original(W, s) ==
  [vbase |-> [x \in Vars(s) |-> W.vbase[x]],
   vidx |-> [x \in Vars(s) |-> W.vidx[x]],
   ventries |-> [x \in Vars(s) |-> W.ventries[x]],
   vfab |-> [x \in Vars(s) |-> W.vfab[x]],
   actors |-> ListOf(W, AActors(s)),
   u |-> [p \in Props(s) |-> W.u[p]],
   council |-> [p \in Props(s) |-> W.council[p]],
   advprev |-> [a \in Advs(s) |-> W.prev[a]],
   b_status |-> W.b_status[s],
   b_commit |-> W.b_commit[s],
   active |-> W.active[s],
   ofwd |-> W.ofwd]

(* the precondition of clone *)
CloneCheck(W, s) ==
  IF SpaceFailed(W, s) THEN "SpaceFailed"
  ELSE IF ~SpaceStable(W, s) THEN "SpaceNotStable" ELSE "clone"

SpaceClone(W, s, c, share, wide) ==
  LET h == [NoHist EXCEPT !.pre = Original(W, s),
                          !.known = {DescId(d) : d \in W.descs}]
      res == CloneCheck(W, s)
  IN IF res # "clone" THEN Returned(W, s, "clone", res, h)
     ELSE LET q == ListOf(W, AActors(s))
              W1 == SpaceCloneCtor(W, s, c)
              K1 == [w |-> W1, vars_u |-> NULL, vars_noidx |-> NULL,
                     copied |-> <<>>]
              K2 == CopyVars(K1, RootVars(s), wide)
              K3 == SharedHandleUpdate(K2, c, s, share)
              sub == SlotAddr(c, 0)
              W4 == [K3.w EXCEPT !.subs[c] = sub,
                                 !.brk[c] = sub + W.n_sub[s]]
              W5 == UpdateVars(W4, K3.vars_u, sub, wide)
              W6 == UpdateNoIdx(W5, K3.vars_noidx, wide)
              W7 == ResetActors(W6, AActors(s), q)
              W8 == ResetCopied(W7, K3.copied)
              W9 == CloneFinish(W8, s, c)
          IN Returned([W9 EXCEPT !.shared = share, !.hlive = @ \cup {c}],
                      s, "clone", "clone", [h EXCEPT !.made = TRUE])

(* Space::~Space of the clone c: its memory goes back, its handle is *)
(* cancelled                                                         *)
SpaceDrop(W, c) ==
  LET W1 == SharedHandleCancel(W, c)
      I(f, S, v) == [a \in DOMAIN f |-> IF a \in S THEN v ELSE f[a]]
      L == {a \in LinkNodes : Owner(a) = c}
  IN [W1 EXCEPT
        !.exists[c] = FALSE, !.shared = FALSE, !.hlive = @ \ {c},
        !.next = I(@, L, NULL), !.prev = I(@, L, NULL),
        !.active[c] = NULL, !.branch_id[c] = 0, !.n_sub[c] = 0,
        !.b_status[c] = NULL, !.b_commit[c] = NULL,
        !.pst = I(@, Props(c), "free"), !.u = I(@, Props(c), 0),
        !.pcost = I(@, Props(c), 0), !.council = I(@, Props(c), NULL),
        !.ast = I(@, Advs(c), "free"), !.bst = I(@, Brans(c), "free"),
        !.bid = I(@, Brans(c), 0), !.balt = I(@, Brans(c), FALSE),
        !.vbase = I(@, Vars(c), NULL), !.ventries = I(@, Vars(c), 0),
        !.vfab = I(@, Vars(c), 0),
        !.vidx = I(@, Vars(c), [pc \in 1..(pc_max + 1) |-> 0]),
        !.mem = I(@, Slots(c), NULL), !.brk[c] = SlotAddr(c, 0),
        !.subs[c] = NULL, !.mode[c] = "idle", !.lastOp[c] = "none",
        !.lastRes[c] = "none", !.executed[c] = 0,
        !.fifo[c] = [k \in 0..PC_MAX |-> <<>>], !.hist[c] = NoHist,
        !.d_fst[c] = NULL, !.d_lst[c] = 0, !.d_arr[c] = <<>>,
        !.ap = I(@, Actors(c), 0), !.ndisp = I(@, Actors(c), 0),
        !.n_wmp[c] = 0, !.wmp[c] = FALSE, !.wsince[c] = FALSE]

(* the actors for forced disposal are disposed, in the order of the array *)
RECURSIVE DisposeForced(_, _, _)
DisposeForced(W, s, q) ==
  IF q = <<>> THEN W
  ELSE DisposeForced(IF Head(q) \in Props(s)
                     THEN PropagatorDispose(W, s, Head(q))
                     ELSE ActorDispose(W, s, Head(q)),
                     s, Tail(q))

(* Space::~Space: the array for forced disposal is discarded, then its   *)
(* actors are disposed, then the memory of the space is released         *)
SpaceDtor(W, s) ==
  LET W1 == DisposeForced([W EXCEPT !.d_fst[s] = NULL], s, W.d_arr[s])
  IN Returned([W1 EXCEPT !.exists[s] = FALSE, !.d_arr[s] = <<>>,
                         !.d_lst[s] = 0],
              s, "delete", "none", NoHist)

(***************************************************************************)
(* The operations of the program as actions.  Space 1 is the space the    *)
(* client builds; space 2 is its clone.  A client posts on and commits to *)
(* spaces that are not failed, and calls one operation of a space at a    *)
(* time; the two spaces run independently of each other.                  *)
(***************************************************************************)
Ready(s) == exists[s] /\ mode[s] = "idle"

(* what propagate and commit may do to the variables of the space *)
Effects(W, s) ==
  {<<>>} \cup {<<x, me>> : x \in {y \in Vars(s) : W.vbase[y] # NULL},
                           me \in Events}

(* the client builds the model before it searches *)
Building(s) == lastOp[s] \in {"none", "post"}

(* post of a propagator: its constructor, which subscribes it to a *)
(* variable; the subscription schedules it unless its condition is *)
(* PC_GEN_ASSIGNED                                                 *)
Subscribable(W, s, x) == W.n_sub[s] < MaxSub /\ EnterOk(W, s, x)

PostOn(s, X) ==
  /\ Ready(s) /\ Building(s) /\ FreeProp(Cur, s) # {}
  /\ \E cost \in Costs, x \in X, pc \in 0..pc_max, me \in {ME_OTHER} :
       LET p == Least(FreeProp(Cur, s))
           W1 == PropagatorCtor(Cur, s, p, cost)
           W2 == SubscribeProp(W1, s, x, p, pc, FALSE, me, TRUE)
       IN /\ Subscribable(W1, s, x)
          /\ Store(Returned(W2, s, "post", "none", NoHist))

Post(s) == PostOn(s, FirstVar(s))

(* a propagator creates an advisor and subscribes it to a variable *)
PostAdvisorOn(s, X) ==
  /\ Ready(s) /\ Building(s) /\ FreeAdv(Cur, s) # {}
  /\ Cardinality(Advs(s) \ FreeAdv(Cur, s)) < MaxAdv
  /\ \E p \in {q \in Props(s) : pst[q] = "live"}, x \in X :
       LET a == Least(FreeAdv(Cur, s))
           W1 == AdvisorCtor(Cur, p, a)
       IN /\ Subscribable(W1, s, x)
          /\ Store(Returned(SubscribeAdv(W1, s, x, a, FALSE), s, "post",
                            "none", NoHist))

PostAdvisor(s) == PostAdvisorOn(s, FirstVar(s))

PostBranching(s) ==
  /\ Ready(s) /\ Building(s) /\ FreeBran(Cur, s) # {}
  /\ \E alt \in BOOLEAN :
       Store(Returned(BranchingCtor(Cur, s, Least(FreeBran(Cur, s)), alt),
                      s, "post", "none", NoHist))

(* status() is called: it returns at once or starts to propagate *)
Status(s) ==
  /\ Ready(s)
  /\ Store(StatusBegin(Cur, s))

Outcomes ==
  {"ES_FAILED", "ES_FIX", "ES_NOFIX", "ES_SUBSUMED", "ES_FIX_PARTIAL",
   "ES_NOFIX_PARTIAL"}

Partial == {"ES_FIX_PARTIAL", "ES_NOFIX_PARTIAL"}

Final == {"ES_FAILED", "ES_FIX", "ES_SUBSUMED"}

(* status() executes the next propagator and goes on or returns; after  *)
(* MaxExec executions the propagators stop asking for more              *)
Propagate(s) ==
  /\ exists[s] /\ mode[s] = "run"
  /\ ~SpaceFailed(Cur, s) /\ ~SpaceStable(Cur, s)
  /\ \E out \in (IF executed[s] + 1 >= MaxExec THEN Final ELSE Outcomes) :
     \E eff \in (IF executed[s] + 1 >= MaxExec THEN {<<>>}
                 ELSE Effects(Cur, s)),
        exh \in {NULL},
        med \in (IF out \in Partial THEN Events ELSE {ME_GEN_NONE}) :
       Store(StatusExec(Cur, s, eff, exh, out, med))

(* status() returns: nothing is left to propagate *)
Return(s) ==
  /\ exists[s] /\ mode[s] = "run"
  /\ SpaceFailed(Cur, s) \/ SpaceStable(Cur, s)
  /\ Store(StatusEnd(Cur, s))

Describe(s) ==
  /\ Ready(s)
  /\ Store(Description(Cur, s))

DoCommit(s) ==
  /\ Ready(s) /\ ~SpaceFailed(Cur, s)
  /\ \E d \in descs, a \in 0..NAlt :
     \E out \in {"ES_OK", "ES_FAILED"}, eff \in Effects(Cur, s),
        exh \in BOOLEAN :
       Store(Commit(Cur, s, d, a, eff, exh, out))

Fail(s) ==
  /\ Ready(s) /\ ~SpaceFailed(Cur, s)
  /\ Store(Returned(SpaceFail(Cur, s), s, "fail", "none", NoHist))

Clone ==
  /\ Ready(1) /\ ~exists[2]
  /\ \E share \in BOOLEAN, wide \in BOOLEAN :
       Store(SpaceClone(Cur, 1, 2, share, wide))

Drop ==
  /\ Ready(2)
  /\ Store(SpaceDrop(Cur, 2))

(* The kernel of one space: the client builds space 1 and searches it. *)
Next ==
  \/ Post(1)
  \/ PostBranching(1)
  \/ Status(1)
  \/ Propagate(1)
  \/ Return(1)
  \/ Describe(1)
  \/ DoCommit(1)
  \/ Fail(1)

Spec == Init /\ [][Next]_vars

(* Search with a clone.  The engine asks for the status of a space and for *)
(* a description after it; it clones before it commits, and goes on with  *)
(* either the original or the clone, with a commit or a status, while the *)
(* other one rests, or commits to the original and then to the clone; a   *)
(* clone that shares is only dropped; a clone is dropped while the        *)
(* original rests.                                                        *)
Turn(s) ==
  \/ ~exists[2]
  \/ ~shared /\ s = 1 /\ lastOp[2] = "none"
  \/ ~shared /\ s = 2 /\ lastOp[1] = "clone"

NextClone ==
  \/ Post(1) /\ \A p \in Props(1) : pcost'[p] # PC_LINEAR_LO
  \/ PostBranching(1)
  \/ PostAdvisor(1)
  \/ \E s \in SP : Turn(s) /\ lastOp[s] # "status" /\ Status(s)
  \/ \E s \in SP : Turn(s) /\ Propagate(s) /\ hist'[s].outcome \in Final
  \/ \E s \in SP : Turn(s) /\ Return(s)
  \/ \E s \in SP : Turn(s) /\ lastOp[s] = "status" /\ Describe(s)
  \/ \E s \in SP : Turn(s) /\ exists[2] /\ lastOp[s] \in {"clone", "none"}
                       /\ DoCommit(s)
  \/ exists[2] /\ ~shared /\ lastOp[1] = "commit" /\ lastOp[2] = "none"
       /\ DoCommit(2)
  \/ Clone
  \/ lastOp[1] = "clone" /\ Drop

SpecClone == Init /\ [][NextClone]_vars

(***************************************************************************)
(* Properties of status, description and commit on one space (Spec).       *)
(***************************************************************************)
(* the propagators waiting in the queues of space s *)
Queued(s) == UNION {Range(fifo[s][c]) : c \in 0..PC_MAX}

(* C1: when status() has returned SS_BRANCH the space is stable            *)
(* (active is below queue[0], no propagator is queued) and not failed      *)
(* (active is not NULL); and a status() called right after a status() that *)
(* returned SS_BRANCH returns at once, with SS_BRANCH again, without       *)
(* entering the propagation loop, so that it executes no propagator.       *)
C1_StatusBranchRepeats ==
  \A s \in SP :
    /\ ((lastOp[s] = "status" /\ mode[s] = "idle" /\ lastRes[s] = "SS_BRANCH")
          => /\ active[s] # NULL
             /\ active[s] < Queue(s, 0)
             /\ \A c \in 0..PC_MAX : next[Queue(s, c)] = Queue(s, c))
    /\ hist[s].prevRes = "SS_BRANCH"
         => /\ mode[s] = "idle"
            /\ lastRes[s] = "SS_BRANCH"
            /\ executed[s] = 0

(* a second status() has returned after SS_BRANCH, on a space with a *)
(* propagator that the first one had to run                          *)
C1_Witness ==
  /\ hist[1].prevRes = "SS_BRANCH"
  /\ lastOp[1] = "status" /\ mode[1] = "idle" /\ lastRes[1] = "SS_BRANCH"
  /\ \E p \in Props(1) : pst[p] = "live"

(* C2: the propagator status() executes comes from the queue of the        *)
(* greatest cost class that holds a propagator (no queue of a greater      *)
(* index held one), and it is the one that was enqueued earliest among     *)
(* those waiting in its queue.                                             *)
C2_QueueOrder ==
  \A s \in SP :
    hist[s].ran # NULL => ~hist[s].higher /\ hist[s].ran = hist[s].oldest

(* B of cost class 7 has been executed while A of cost class 4, enqueued *)
(* before B, is still waiting                                            *)
C2_Witness ==
  /\ mode[1] = "run"
  /\ hist[1].ran = PropAddr(1, 2)
  /\ pcost[PropAddr(1, 2)] = PC_UNARY_LO
  /\ pcost[PropAddr(1, 1)] = PC_LINEAR_LO
  /\ PropAddr(1, 1) \in Range(fifo[1][PC_LINEAR_LO])

(* C3: once propagate has returned ES_FAILED the space is failed, and the  *)
(* status() in progress does nothing more than return SS_FAILED: it        *)
(* executes no further propagator; and when commit returns after the       *)
(* branching's commit returned ES_FAILED the space is failed.              *)
C3_FailedShortCircuits ==
  [][\A s \in SP :
       /\ (hist'[s].outcome = "ES_FAILED" => active'[s] = NULL)
       /\ ((mode[s] = "run" /\ hist[s].outcome = "ES_FAILED")
             => \/ mode'[s] = "run" /\ hist'[s] = hist[s]
                     /\ executed'[s] = executed[s]
                \/ mode'[s] = "idle" /\ lastOp'[s] = "status"
                     /\ lastRes'[s] = "SS_FAILED" /\ active'[s] = NULL)
       /\ (lastOp'[s] = "commit" /\ lastRes'[s] = "ES_FAILED")
            => active'[s] = NULL]_vars

(* propagate has returned ES_FAILED while another propagator waits *)
C3_Witness ==
  /\ mode[1] = "run" /\ hist[1].outcome = "ES_FAILED"
  /\ active[1] = NULL
  /\ Queued(1) \ {hist[1].ran} # {}

(* C5 as stated: description() signals SpaceNotStable whenever the space   *)
(* is failed or has propagators queued, and invokes no branching then.     *)
C5_Original ==
  \A s \in SP :
    (lastOp[s] = "description"
       /\ (active[s] = NULL \/ active[s] >= Queue(s, 0)))
      => lastRes[s] = "SpaceNotStable" /\ hist[s].target = NULL

(* C5, amended: description() signals SpaceNotStable exactly when stable() *)
(* is false, that is when the space is not failed and propagators are      *)
(* still queued, and invokes no branching's description then; on a stable  *)
(* space, and a failed space is stable, it signals nothing and delegates   *)
(* to the branching at b_status.                                           *)
C5_DescriptionNotStable ==
  \A s \in SP :
    lastOp[s] = "description" =>
      /\ (active[s] >= Queue(s, 0)
            => lastRes[s] = "SpaceNotStable" /\ hist[s].target = NULL)
      /\ active[s] < Queue(s, 0)
           => /\ lastRes[s] # "SpaceNotStable"
              /\ (b_status[s] # AActors(s)
                    => lastRes[s] = "desc" /\ hist[s].target = b_status[s])

(* description() has delegated to a branching on a failed space *)
C5_Witness ==
  /\ lastOp[1] = "description" /\ active[1] = NULL
  /\ lastRes[1] = "desc" /\ hist[1].target = b_status[1]

(* C6: commit(d,a) with a >= d.alternatives() signals                      *)
(* SpaceIllegalAlternative; commit with an alternative of d on a space     *)
(* whose b_commit is at the sentinel of the actor list signals             *)
(* SpaceNoBranching; no branching's commit is invoked in either case.      *)
C6_CommitSignals ==
  \A s \in SP :
    lastOp[s] = "commit" =>
      /\ (~hist[s].legal => lastRes[s] = "SpaceIllegalAlternative")
      /\ ((hist[s].legal /\ b_commit[s] = AActors(s))
            => lastRes[s] = "SpaceNoBranching")
      /\ lastRes[s] \in {"SpaceIllegalAlternative", "SpaceNoBranching"}
           => hist[s].target = NULL

(* commit has signalled SpaceNoBranching on a space without branching *)
C6_Witness ==
  /\ lastOp[1] = "commit" /\ hist[1].legal
  /\ b_commit[1] = AActors(1)
  /\ lastRes[1] = "SpaceNoBranching" /\ hist[1].target = NULL

(***************************************************************************)
(* Properties of clone (SpecClone).                                        *)
(***************************************************************************)
(* C4: clone() of a failed space signals SpaceFailed and clone() of a      *)
(* space that is not failed and not stable signals SpaceNotStable, no      *)
(* clone is made in either case; a clone is made exactly when the space    *)
(* was stable and not failed when clone() was called.                      *)
C4_CloneSignals ==
  lastOp[1] = "clone" =>
    LET a == hist[1].pre.active
    IN /\ (a = NULL => lastRes[1] = "SpaceFailed" /\ ~hist[1].made)
       /\ ((a # NULL /\ a >= Queue(1, 0))
             => lastRes[1] = "SpaceNotStable" /\ ~hist[1].made)
       /\ (hist[1].made <=> (a # NULL /\ a < Queue(1, 0)))
       /\ (hist[1].made => lastRes[1] = "clone")
       /\ (~hist[1].made => ~exists[2])

(* clone() has signalled SpaceNotStable on a space with a queued propagator *)
C4_Witness ==
  /\ lastOp[1] = "clone" /\ lastRes[1] = "SpaceNotStable"
  /\ Queued(1) # {} /\ active[1] >= Queue(1, 0)
  /\ ~exists[2]

(* the live branchings of space s *)
LiveBrans(s) == {b \in Brans(s) : bst[b] = "live"}

(* C7: commit with an alternative of its description d invokes the commit  *)
(* of the one live branching of the space whose id is d.id(), which is     *)
(* then at b_commit, after disposing of branchings with other ids only,    *)
(* and signals SpaceNoBranching only when the space holds no live          *)
(* branching with that id; a description carries the id of the branching   *)
(* that made it; and right after clone every branching of the clone has    *)
(* the id of the branching it is the copy of.                              *)
C7_CommitById ==
  \A s \in SP :
    /\ (lastOp[s] = "commit" /\ hist[s].legal) =>
         /\ (hist[s].target # NULL =>
               /\ hist[s].target \in LiveBrans(s)
               /\ bid[hist[s].target] = hist[s].did
               /\ b_commit[s] = hist[s].target
               /\ \A b \in LiveBrans(s) :
                    bid[b] = hist[s].did => b = hist[s].target)
         /\ (\A b \in hist[s].skipped :
               bst[b] = "gone" /\ bid[b] # hist[s].did)
         /\ (hist[s].target = NULL =>
               /\ lastRes[s] = "SpaceNoBranching"
               /\ \A b \in LiveBrans(s) : bid[b] # hist[s].did)
    /\ ((lastOp[s] = "description" /\ hist[s].target # NULL)
          => bid[hist[s].target] = hist[s].did)
    /\ ((s = 1 /\ lastOp[1] = "clone" /\ exists[2] /\ lastOp[2] = "none")
          => \A b \in LiveBrans(1) :
               Twin(b) \in LiveBrans(2) /\ bid[Twin(b)] = bid[b])

(* the original and then the clone made by clone(false) have committed a *)
(* description that the original made before the clone, and the clone    *)
(* has disposed of a branching with another id on the way                *)
C7_Witness ==
  /\ exists[2] /\ ~shared
  /\ lastOp[1] = "commit" /\ hist[1].legal /\ hist[1].target # NULL
  /\ hist[1].did = hist[2].did
  /\ hist[2].target = Twin(hist[1].target)
  /\ lastOp[2] = "commit" /\ hist[2].legal
  /\ hist[2].target # NULL /\ bid[hist[2].target] = hist[2].did
  /\ hist[2].skipped # {}

(* the link nodes of space s *)
Nodes(s) == {AActors(s)} \cup Queues(s) \cup Props(s) \cup Brans(s) \cup Advs(s)

(* pointer a is NULL or the address of a link node of space s *)
InSpace(a, s) == a = NULL \/ (Owner(a) = s /\ a < SlotAddr(s, 0))

(* pointer a is NULL or the address of a subscription slot of space s *)
InArena(a, s) == a = NULL \/ (SlotAddr(s, 0) <= a /\ a < SlotAddr(s, NSlots))

(* no pointer of either space leads to the other space, the two spaces *)
(* hold different objects, and no object has a forwarding pointer      *)
Isolated ==
  /\ \A s \in SP :
       /\ \A a \in Nodes(s) : InSpace(next[a], s) /\ InSpace(prev[a], s)
       /\ InSpace(active[s], s)
       /\ InSpace(b_status[s], s) /\ InSpace(b_commit[s], s)
       /\ \A p \in Props(s) : InSpace(council[p], s)
       /\ \A x \in Vars(s) : InArena(vbase[x], s)
       /\ \A a \in Slots(s) : InSpace(mem[a], s)
       /\ InArena(subs[s], s)
  /\ (hnd[1] # NULL => hnd[1] # hnd[2])
  /\ \A o \in Objs : ofwd[o] = NULL

(* the step leaves everything that belongs to space s as it is *)
Untouched(s) ==
  /\ exists'[s] = exists[s] /\ mode'[s] = mode[s]
  /\ active'[s] = active[s] /\ executed'[s] = executed[s]
  /\ b_status'[s] = b_status[s] /\ b_commit'[s] = b_commit[s]
  /\ branch_id'[s] = branch_id[s] /\ n_sub'[s] = n_sub[s]
  /\ brk'[s] = brk[s] /\ subs'[s] = subs[s] /\ hnd'[s] = hnd[s]
  /\ (hnd[s] # NULL =>
        /\ ost'[hnd[s]] = ost[hnd[s]]
        /\ ocnt'[hnd[s]] = ocnt[hnd[s]]
        /\ ofwd'[hnd[s]] = ofwd[hnd[s]])
  /\ \A a \in Nodes(s) : next'[a] = next[a] /\ prev'[a] = prev[a]
  /\ \A p \in Props(s) :
       /\ pst'[p] = pst[p] /\ u'[p] = u[p]
       /\ pcost'[p] = pcost[p] /\ council'[p] = council[p]
  /\ \A a \in Advs(s) : ast'[a] = ast[a]
  /\ \A b \in Brans(s) :
       bst'[b] = bst[b] /\ bid'[b] = bid[b] /\ balt'[b] = balt[b]
  /\ \A x \in Vars(s) :
       /\ vbase'[x] = vbase[x] /\ ventries'[x] = ventries[x]
       /\ vfab'[x] = vfab[x] /\ vidx'[x] = vidx[x]
  /\ \A a \in Slots(s) : mem'[a] = mem[a]

C10_CloneRestoresOriginal ==
  (lastOp[1] = "clone" /\ hist[1].made) =>
    /\ Original(Cur, 1) = hist[1].pre
    /\ WellLinked(Cur, AActors(1))
    /\ \A x \in Vars(1) : ~Copied(Cur, x)
    /\ \A p \in Props(1) : pst[p] = "live" => u[p] = 0
    /\ \A o \in Objs : ofwd[o] = NULL

(* a space with a branching, a propagator with an advisor and a variable   *)
(* with two subscriptions has been cloned, and the clone has been dropped  *)
C10_Witness ==
  /\ lastOp[1] = "clone" /\ hist[1].made /\ ~exists[2]
  /\ \E x \in Vars(1) : ventries[x] >= 2 /\ vbase[x] \in Slots(1)
  /\ \E a \in Advs(1) : ast[a] = "live"
  /\ Len(ListOf(Cur, AActors(1))) >= 2

(***************************************************************************)
(* Twin runs.  After clone(false) the engine applies every operation to    *)
(* the original and to the clone.  Propagators and branchings are          *)
(* deterministic: the copy of an actor does to the clone what the actor    *)
(* does to the original, and returns the same status.                      *)
(***************************************************************************)
TwinEff(eff) == IF eff = <<>> THEN <<>> ELSE <<Twin(eff[1]), eff[2]>>

CanPropagate(W, s) ==
  W.mode[s] = "run" /\ ~SpaceFailed(W, s) /\ ~SpaceStable(W, s)

CanReturn(W, s) ==
  W.mode[s] = "run" /\ (SpaceFailed(W, s) \/ SpaceStable(W, s))

Twins == exists[2] /\ mode[1] = "idle" /\ mode[2] = "idle"

TwinStatus ==
  /\ Twins /\ lastOp[1] # "status"
  /\ Store(StatusBegin(StatusBegin(Cur, 1), 2))

TwinPropagate ==
  /\ exists[2] /\ CanPropagate(Cur, 1)
  /\ \E out \in (IF executed[1] + 1 >= MaxExec THEN Final ELSE Outcomes) :
     \E eff \in (IF executed[1] + 1 >= MaxExec THEN {<<>>}
                 ELSE Effects(Cur, 1)),
        med \in (IF out \in Partial THEN Events ELSE {ME_GEN_NONE}) :
       LET W1 == StatusExec(Cur, 1, eff, NULL, out, med)
       IN IF ~CanPropagate(W1, 2) THEN Store(W1)
          ELSE IF Picked(W1, 2) = Twin(Picked(Cur, 1))
          THEN Store(StatusExec(W1, 2, TwinEff(eff), NULL, out, med))
          ELSE \E out2 \in Final :
                 Store(StatusExec(W1, 2, <<>>, NULL, out2, ME_GEN_NONE))

TwinReturn ==
  /\ exists[2] /\ CanReturn(Cur, 1)
  /\ LET W1 == StatusEnd(Cur, 1)
     IN Store(IF CanReturn(W1, 2) THEN StatusEnd(W1, 2) ELSE W1)

TwinDescribe ==
  /\ Twins /\ lastOp[1] = "status"
  /\ Store(Description(Description(Cur, 1), 2))

TwinCommit ==
  /\ Twins /\ lastOp[1] \in {"clone", "description"}
  /\ ~SpaceFailed(Cur, 1) /\ ~SpaceFailed(Cur, 2)
  /\ \E d \in descs, a \in 0..NAlt :
     \E out \in {"ES_OK", "ES_FAILED"}, eff \in Effects(Cur, 1),
        exh \in BOOLEAN :
       LET W1 == Commit(Cur, 1, d, a, eff, exh, out)
           t == W1.hist[1].target
       IN \E out2 \in {"ES_OK", "ES_FAILED"} :
            LET W2 == Commit(W1, 2, d, a, TwinEff(eff), exh, out2)
            IN /\ (W2.hist[2].target = (IF t = NULL THEN NULL ELSE Twin(t))
                     => out2 = out)
               /\ Store(W2)

NextTwin ==
  \/ Post(1) /\ \A p \in Props(1) : pcost'[p] # PC_LINEAR_LO
  \/ PostBranching(1)
  \/ PostAdvisor(1)
  \/ ~exists[2] /\ lastOp[1] # "status" /\ Status(1)
  \/ ~exists[2] /\ Propagate(1) /\ hist'[1].outcome \in Final
  \/ ~exists[2] /\ Return(1)
  \/ ~exists[2] /\ lastOp[1] = "status" /\ Describe(1)
  \/ Clone /\ ~shared'
  \/ TwinStatus
  \/ TwinPropagate
  \/ TwinReturn
  \/ TwinDescribe
  \/ TwinCommit

SpecTwin == Init /\ [][NextTwin]_vars

(* C9: after clone(false), while the same commit, status and description   *)
(* operations are applied to the original and to the clone, the two runs   *)
(* are at the same point (both idle, or both propagating after the same    *)
(* number of executions), the operation that last returned is the same on  *)
(* both, and it returned the same result: the same SpaceStatus from        *)
(* status(), the same ExecStatus or the same exception from commit.        *)
C9_TwinRuns ==
  (exists[2] /\ lastOp[2] # "none") =>
    /\ mode[1] = mode[2]
    /\ executed[1] = executed[2]
    /\ lastOp[1] = lastOp[2]
    /\ lastRes[1] = lastRes[2]

(* both runs have propagated after a commit and both status() calls have *)
(* returned SS_BRANCH                                                    *)
C9_Witness ==
  /\ exists[2] /\ ~shared
  /\ lastOp[1] = "status" /\ lastOp[2] = "status"
  /\ mode[1] = "idle" /\ mode[2] = "idle"
  /\ lastRes[1] = "SS_BRANCH" /\ lastRes[2] = "SS_BRANCH"
  /\ \E p \in Props(1) : pst[p] = "live" /\ pst[Twin(p)] = "live"
  /\ \E b \in Brans(2) : bst[b] = "gone"

(***************************************************************************)
(* Actors with properties on one space (SpecActor): the client posts       *)
(* propagators and branchings, which make the space notice their           *)
(* properties, asks for the status of the space, and deletes the space.    *)
(***************************************************************************)
(* the propagator and the branching of space s that were posted last *)
LastPosted(s) ==
  {p \in Props(s) :
     pst[p] = "live" /\ \A q \in Props(s) : q > p => pst[q] = "free"}
    \cup {b \in Brans(s) :
            bst[b] = "live" /\ \A q \in Brans(s) : q > b => bst[q] = "free"}

(* the properties an actor may have: only a propagator is weakly *)
(* monotonic                                                     *)
Properties(a) ==
  IF a \in Props(1) \cup Props(2)
  THEN {AP_DISPOSE, AP_WEAKLY, AP_DISPOSE + AP_WEAKLY} ELSE {AP_DISPOSE}

(* an actor makes its space notice properties p, when it is posted *)
Notice(s) ==
  /\ Ready(s) /\ Building(s)
  /\ \E a \in {b \in LastPosted(s) : ap[b] = 0} : \E p \in Properties(a) :
       Store(Returned([SpaceNotice(Cur, s, a, p) EXCEPT
                         !.ap[a] = p,
                         !.wsince[s] = @ \/ HasProp(p, AP_WEAKLY)],
                      s, "post", "none", NoHist))

Destroy(s) ==
  /\ Ready(s)
  /\ Store(SpaceDtor(Cur, s))

NextActor ==
  \/ Post(1) /\ \A p \in Props(1) : pcost'[p] # PC_LINEAR_LO
             /\ \A x \in Vars(1) : vidx'[x][1] = 0
  \/ PostBranching(1) /\ \A b \in Brans(1) : ~balt'[b]
  \/ Notice(1)
  \/ Status(1)
  \/ Propagate(1) /\ hist'[1].outcome \in Final
  \/ Return(1)
  \/ Destroy(1)

SpecActor == Init /\ [][NextActor]_vars

(* the number of entries of the disposal array of space s that hold a *)
InArray(s, a) == Cardinality({i \in 1..Len(d_arr[s]) : d_arr[s][i] = a})

C12_WmpReported ==
  (exists[1] /\ mode[1] = "idle" /\ lastOp[1] = "status")
    => (wmp[1] = hist[1].wexp)

(***************************************************************************)
(* Search::bab (SpecBab): the choice between the sequential and the        *)
(* parallel branch-and-bound engine.                                       *)
(***************************************************************************)
ThreadRange == (-1)..MaxThreads

(* Search::threads(o): the options with the threads setting resolved; the *)
(* setting is translated, possibly with a probe of the system, into r    *)
SearchThreads(b, r) == [b EXCEPT !.to = r]

(* bab(s,sz,o) of a build with (has) or without GECODE_HAS_THREADS *)
SearchBab(b, r) ==
  IF b.has
  THEN LET to == SearchThreads(b, r)
       IN IF to.to = 1 THEN [to EXCEPT !.engine = "sequential"]
          ELSE [to EXCEPT !.engine = "parallel"]
  ELSE [b EXCEPT !.to = b.threads, !.engine = "sequential"]

(* the build and the arguments of the call *)
InitBab ==
  /\ InitSpace
  /\ bab \in [threads : ThreadRange, sz : 0..MaxSize, has : BOOLEAN,
              to : {1}, engine : {"none"}]
  /\ ra = NoRealloc

BabCall ==
  /\ bab.engine = "none"
  /\ \E r \in (IF bab.has THEN ThreadRange ELSE {bab.threads}) :
       Store([Cur EXCEPT !.bab = SearchBab(bab, r)])

NextBab == BabCall

SpecBab == InitBab /\ [][NextBab]_vars

LiveObjs == {o \in Objs : ost[o] = "live"}

(* the objects a handle can be given: none, one that exists, a new one *)
Givable == {NULL} \cup LiveObjs \cup
             (IF FreeObj(Cur) = {} THEN {} ELSE {Least(FreeObj(Cur))})

Given(W, n) == IF n # NULL /\ W.ost[n] # "live" THEN ObjectCtor(W, n) ELSE W

HandleNew ==
  /\ ~cloning.on
  /\ \E h \in Handles \ hlive, so \in Givable :
       Store(SharedHandleCtor(Given(Cur, so), h, so))

HandleCopy ==
  /\ ~cloning.on
  /\ \E h \in Handles \ hlive, sh \in hlive :
       Store(SharedHandleCopyCtor(Cur, h, sh))

HandleAssign ==
  /\ ~cloning.on
  /\ \E h \in hlive, sh \in hlive : Store(SharedHandleAssign(Cur, h, sh))

HandleObject ==
  /\ ~cloning.on
  /\ \E h \in hlive, n \in Givable :
       Store(SharedHandleObject(Given(Cur, n), h, n))

HandleDelete ==
  /\ ~cloning.on
  /\ \E h \in hlive : Store(SharedHandleDtor(Cur, h))

(* the copy of a space begins *)
CopyBegin ==
  /\ ~cloning.on
  /\ \E share \in BOOLEAN :
       Store([Cur EXCEPT !.copied = <<>>,
                         !.cloning = [on |-> TRUE, share |-> share,
                                      objs |-> LiveObjs, upd |-> {}]])

(* the handles that were updated, or updated from, in this copy *)
Updated == {pr[1] : pr \in cloning.upd} \cup {pr[2] : pr \in cloning.upd}

(* SharedHandle::update on handle h from handle sh: h is the handle of   *)
(* the copy, constructed without object for the update, or a handle that *)
(* exists                                                                 *)
HandleUpdate ==
  /\ cloning.on
  /\ \E h \in Handles \ Updated,
        sh \in {g \in hlive : \A pr \in cloning.upd : pr[1] # g} :
       LET W1 == IF h \in hlive THEN Cur ELSE SharedHandleCtor(Cur, h, NULL)
           K == SharedHandleUpdate([w |-> W1, vars_u |-> NULL,
                                    vars_noidx |-> NULL, copied |-> copied],
                                   h, sh, cloning.share)
       IN /\ h # sh
          /\ (h \in hlive /\ hnd[h] # NULL) => Len(overwritten) < MaxOver
          /\ IF cloning.share \/ hnd[sh] = NULL THEN TRUE
             ELSE IF ofwd[hnd[sh]] # NULL THEN TRUE
             ELSE FreeObj(Cur) # {}
          /\ Store([K.w EXCEPT !.copied = K.copied,
                               !.overwritten =
                                 IF W1.hnd[h] # NULL THEN Append(@, W1.hnd[h])
                                 ELSE @,
                               !.cloning.upd = @ \cup {<<h, sh>>}])

(* the copy of the space ends: the forwarding pointers are reset *)
CopyEnd ==
  /\ cloning.on
  /\ Store([ResetCopied(Cur, copied) EXCEPT !.copied = <<>>,
                                            !.cloning = NoCopy])

NextHandle ==
  \/ HandleNew
  \/ HandleCopy
  \/ HandleAssign
  \/ HandleObject
  \/ HandleDelete
  \/ CopyBegin
  \/ HandleUpdate
  \/ CopyEnd

SpecHandle == Init /\ [][NextHandle]_vars

(* the handles that refer to object o *)
Referrers(o) == {h \in hlive : hnd[h] = o}

(* C14 as stated: the use_cnt of every shared object is the number of   *)
(* handles that refer to it; an object exists exactly as long as a      *)
(* handle refers to it, and is deleted with use_cnt 0, whatever the     *)
(* sequence of constructions, copies, assignments, object(n), updates   *)
(* and destructions.                                                    *)
C14_UseCount ==
  /\ \A o \in Objs :
       /\ ost[o] = "live" => ocnt[o] = Cardinality(Referrers(o)) /\ ocnt[o] > 0
       /\ ost[o] # "live" => ocnt[o] = 0 /\ Referrers(o) = {}
  /\ \A h \in hlive : hnd[h] # NULL => hnd[h] \in Objs

(* the number of updates of a handle that referred to object o *)
Overwrites(o) ==
  Cardinality({i \in 1..Len(overwritten) : overwritten[i] = o})

(* C14 amended: update does not cancel the subscription of the handle   *)
(* it is applied to.  The use_cnt of an object is the number of handles *)
(* that refer to it plus the number of updates of a handle that         *)
(* referred to it.  An object is deleted exactly when its use_cnt drops *)
(* to 0, never while a handle refers to it, and never after a handle    *)
(* that referred to it was updated.                                     *)
C14_UseCountUpdate ==
  /\ \A o \in Objs :
       /\ ost[o] = "live"
            => /\ ocnt[o] = Cardinality(Referrers(o)) + Overwrites(o)
               /\ ocnt[o] > 0
       /\ ost[o] # "live"
            => ocnt[o] = 0 /\ Referrers(o) = {} /\ Overwrites(o) = 0
  /\ \A h \in hlive : hnd[h] # NULL => hnd[h] \in Objs

(* two handles refer to one object after an update with sharing, an    *)
(* object has been deleted, and a handle with an object was updated    *)
C14_Witness ==
  /\ \E o \in Objs : ocnt[o] = 2 /\ Overwrites(o) = 0
  /\ ost[ObjAddr(1)] = "free"
  /\ overwritten # <<>>
  /\ ~cloning.on

(* C15: during one copy without sharing every object gets exactly one   *)
(* copy however many handles refer to it: an updated handle has the     *)
(* forwarding pointer of the object of its original, which is a new     *)
(* object; the objects with a forwarding pointer are the entries of the *)
(* copied list, once each; distinct objects have distinct copies; a     *)
(* handle without object is updated to a handle without object.        *)
C15_OneCopy ==
  (cloning.on /\ ~cloning.share) =>
    /\ \A pr \in cloning.upd :
         IF hnd[pr[2]] = NULL THEN hnd[pr[1]] = NULL
         ELSE /\ hnd[pr[1]] = ofwd[hnd[pr[2]]]
              /\ hnd[pr[1]] \in LiveObjs \ cloning.objs
    /\ \A o \in Objs :
         Cardinality({i \in 1..Len(copied) : copied[i] = o})
           = IF ofwd[o] # NULL THEN 1 ELSE 0
    /\ \A o1, o2 \in Objs :
         (o1 # o2 /\ ofwd[o1] # NULL) => ofwd[o1] # ofwd[o2]
    /\ Cardinality(LiveObjs \ cloning.objs) = Len(copied)
    /\ \A o \in Objs :
         ofwd[o] # NULL => \E pr \in cloning.upd : hnd[pr[2]] = o

(* two handles that refer to the same object have been updated in one *)
(* copy without sharing                                               *)
C15_Witness ==
  /\ cloning.on /\ ~cloning.share
  /\ \E p1, p2 \in cloning.upd :
       /\ p1 # p2
       /\ hnd[p1[2]] # NULL /\ hnd[p1[2]] = hnd[p2[2]]
       /\ hnd[p1[1]] = hnd[p2[1]]

(***************************************************************************)
(* Subscriptions and advisors of one variable (SpecVar): propagators and   *)
(* advisors are created, subscribed to the variable and cancelled, for an  *)
(* assigned and for an unassigned variable, and the variable is modified,  *)
(* which calls advise.                                                     *)
(***************************************************************************)
(* the variable the calls are made on *)
TheVar == VarAddr(1, 1)

(* what the calls on variable x can change: the subscription array of x, *)
(* the number of subscriptions of the space, the events and the queues   *)
(* of the propagators, and which advisors are disposed                   *)
VarSnap(W, s, x) ==
  [entries |-> W.ventries[x],
   idx |-> W.vidx[x],
   free |-> VarFree(W, x),
   n_sub |-> W.n_sub[s],
   arr |-> [i \in 1..W.ventries[x] |-> W.mem[W.vbase[x] + i - 1]],
   u |-> [p \in Props(s) |-> W.u[p]],
   fifo |-> W.fifo[s],
   active |-> W.active[s],
   links |-> [n \in Props(s) \cup Queues(s) |-> <<W.next[n], W.prev[n]>>],
   disposed |-> {a \in Advs(s) : W.ast[a] = "live" /\ AdvisorDisposed(W, a)}]

(* the status an advisor's propagator returns from advise *)
AdvOutcomes ==
  {"ES_FIX", "ES_NOFIX", "ES_FAILED", "ES_SUBSUMED_FIX", "ES_SUBSUMED_NOFIX"}

(* a variant of the advisor's dispose that keeps the subscriptions *)
AdvisorSubsumedKeep(W, s, a) == AdvisorDispose(W, a)

(* A::dispose(home,c) as advisors implement it: the advisor cancels its *)
(* subscriptions and disposes itself                                    *)
AdvisorSubsumed(W, s, a) == AdvisorDispose(CancelAllAdv(W, s, a), a)

(* p.advise(home,a,d) returning r: ES_SUBSUMED_FIX(a,home,c) and *)
(* ES_SUBSUMED_NOFIX(a,home,c) dispose the advisor               *)
PropagatorAdvise(W, s, a, r) ==
  IF r \in {"ES_SUBSUMED_FIX", "ES_SUBSUMED_NOFIX"}
  THEN AdvisorSubsumed(W, s, a) ELSE W

(* a variant in which every status but ES_FAILED is taken as ES_NOFIX *)
EsOfNofix(r) == IF r = "ES_FAILED" THEN r ELSE "ES_NOFIX"

(* the ExecStatus that advise gets *)
EsOf(r) ==
  IF r = "ES_SUBSUMED_FIX" THEN "ES_FIX"
  ELSE IF r = "ES_SUBSUMED_NOFIX" THEN "ES_NOFIX"
  ELSE r

(* a variant of the end of the loop that follows entries *)
AdviseEndLive(W, x, le) == W.vbase[x] + W.ventries[x]

(* the end of the loop of advise: le, as computed when advise began *)
AdviseEnd(W, x, le) == le

(* the loop of advise from slot la; R holds the space w, the advisors *)
(* run so far (log), whether the assertion held for each (ok), and    *)
(* the value advise returns (ret)                                     *)
RECURSIVE AdviseLoop(_, _, _, _, _, _, _)
AdviseLoop(R, s, x, la, le, me, r) ==
  LET W == R.w
      a == W.mem[la]
  IN IF a \notin DOMAIN r THEN [R EXCEPT !.log = Append(@, a), !.ok = FALSE]
     ELSE IF AdvisorDisposed(W, a)
     THEN [R EXCEPT !.log = Append(@, a), !.ok = FALSE]
     ELSE
       LET q == W.prev[a]
           W1 == PropagatorAdvise(W, s, a, r[a])
           es == EsOf(r[a])
           R1 == [R EXCEPT !.log = Append(@, a)]
       IN IF es = "ES_FAILED" THEN [R1 EXCEPT !.w = W1, !.ret = FALSE]
          ELSE LET W2 == IF es = "ES_NOFIX" THEN Schedule(W1, s, q, me)
                         ELSE W1
                   R2 == [R1 EXCEPT !.w = W2]
               IN IF la + 1 < AdviseEnd(W2, x, le)
                  THEN AdviseLoop(R2, s, x, la + 1, le, me, r)
                  ELSE R2

(* VarImp::advise(home,me,d); r gives what the propagator of each *)
(* advisor returns                                                *)
VarAdvise(W, s, x, me, r) ==
  LET la == ActorNonZero(W, x, pc_max + 1)
      le == W.vbase[x] + W.ventries[x]
      R == [w |-> W, log |-> <<>>, ok |-> TRUE, ret |-> TRUE]
  IN IF la = le THEN R ELSE AdviseLoop(R, s, x, la, le, me, r)

(* the actors of the slice of condition pc *)
InSlice(W, x, pc) == {W.mem[t] : t \in Slice(W, x, pc)}

LiveProps == {p \in Props(1) : pst[p] = "live"}

LiveAdvs == {a \in Advs(1) : ast[a] = "live" /\ ~AdvisorDisposed(Cur, a)}

(* a propagator is created *)
NewPropagator ==
  /\ FreeProp(Cur, 1) # {}
  /\ Store([PropagatorCtor(Cur, 1, Least(FreeProp(Cur, 1)), PC_UNARY_LO)
              EXCEPT !.vop = NoOp])

(* a propagator creates an advisor *)
NewAdvisor ==
  /\ FreeAdv(Cur, 1) # {}
  /\ \E p \in LiveProps :
       Store([AdvisorCtor(Cur, p, Least(FreeAdv(Cur, 1)))
                EXCEPT !.vop = NoOp])

(* the array of the variable takes one more entry *)
CanEnter == ventries[TheVar] < MaxEntries /\ EnterOk(Cur, 1, TheVar)

(* x.subscribe(home,p,pc,assigned,me,schedule) *)
SubscribeCall(p, pc, assigned, me, schedule) ==
  /\ pst[p] = "live"
  /\ assigned \/ CanEnter
  /\ \E Wn \in {SubscribeProp(Cur, 1, TheVar, p, pc, assigned, me, schedule)} :
       Store([Wn EXCEPT !.subd[pc][p] = IF assigned THEN @ ELSE @ + 1])

Subscribe ==
  \E p \in LiveProps, pc \in 0..pc_max, assigned \in BOOLEAN,
     schedule \in BOOLEAN :
  \E me \in (IF schedule /\ ~assigned THEN Events ELSE {ME_GEN_NONE}) :
    SubscribeCall(p, pc, assigned, me, schedule)

(* x.cancel(home,p,pc,assigned) *)
CancelCall(p, pc, assigned) ==
  /\ pst[p] = "live"
  /\ assigned \/ p \in InSlice(Cur, TheVar, pc)
  /\ \E Wn \in {CancelProp(Cur, 1, TheVar, p, pc, assigned)} :
       Store([Wn EXCEPT !.subd[pc][p] = IF assigned THEN @ ELSE @ - 1])

Cancel ==
  \E p \in LiveProps, pc \in 0..pc_max, assigned \in BOOLEAN :
    CancelCall(p, pc, assigned)

(* x.subscribe(home,a,assigned) *)
SubscribeAdvisorCall(a, assigned) ==
  /\ a \in LiveAdvs
  /\ a \notin InSlice(Cur, TheVar, pc_max + 1)
  /\ assigned \/ CanEnter
  /\ \E Wn \in {SubscribeAdv(Cur, 1, TheVar, a, assigned)} :
       Store([Wn EXCEPT !.subd[pc_max + 1][a] = IF assigned THEN @ ELSE @ + 1])

SubscribeAdvisor ==
  \E a \in LiveAdvs, assigned \in BOOLEAN : SubscribeAdvisorCall(a, assigned)

(* x.cancel(home,a,assigned) *)
CancelAdvisorCall(a, assigned) ==
  /\ a \in LiveAdvs
  /\ assigned \/ a \in InSlice(Cur, TheVar, pc_max + 1)
  /\ \E Wn \in {CancelAdv(Cur, 1, TheVar, a, assigned)} :
       Store([Wn EXCEPT !.subd[pc_max + 1][a] = IF assigned THEN @ ELSE @ - 1])

CancelAdvisor ==
  \E a \in LiveAdvs, assigned \in BOOLEAN : CancelAdvisorCall(a, assigned)

(* the variable is modified with event me: x.advise(home,me,d) *)
Advise ==
  \E me \in Events :
  \E r \in [InSlice(Cur, TheVar, pc_max + 1) -> AdvOutcomes] :
  \E R \in {VarAdvise(Cur, 1, TheVar, me, r)} :
  \E Wn \in {[R.w EXCEPT !.vop =
                [op |-> "advise", me |-> me,
                 start |-> InSlice(Cur, TheVar, pc_max + 1),
                 log |-> R.log, res |-> r, ret |-> R.ret, ok |-> R.ok,
                 pre |-> VarSnap(Cur, 1, TheVar)]]} :
    Store(Wn)

(* subscribe and cancel *)
NextVar ==
  \/ NewPropagator
  \/ NewAdvisor /\ Cardinality(Advs(1) \ FreeAdv(Cur, 1)) < MaxAdv
  \/ Subscribe
  \/ Cancel
  \/ SubscribeAdvisor
  \/ CancelAdvisor

SpecVar == Init /\ [][NextVar]_vars

(* a propagator creates an advisor, whose constructor subscribes it to *)
(* the variable                                                        *)
NewSubscribedAdvisor ==
  /\ FreeAdv(Cur, 1) # {}
  /\ CanEnter
  /\ \E p \in LiveProps :
       LET a == Least(FreeAdv(Cur, 1))
       IN Store([SubscribeAdv(AdvisorCtor(Cur, p, a), 1, TheVar, a, FALSE)
                   EXCEPT !.vop = NoOp])

(* advisors and advise *)
NextAdvise ==
  \/ NewPropagator /\ LiveProps = {}
  \/ NewSubscribedAdvisor
  \/ Advise

SpecAdvise == Init /\ [][NextAdvise]_vars

(* how often the last call of advise ran advisor a *)
Times(a) == Cardinality({i \in 1..Len(vop.log) : vop.log[i] = a})

(* the advisors that are disposed *)
DisposedNow == {a \in Advs(1) : ast[a] = "live" /\ AdvisorDisposed(Cur, a)}

(* the events and the queues of the propagators are as before the call *)
QueuesKept ==
  /\ vop.pre.u = [p \in Props(1) |-> u[p]]
  /\ vop.pre.fifo = fifo[1]
  /\ vop.pre.active = active[1]
  /\ vop.pre.links = [n \in Props(1) \cup Queues(1) |-> <<next[n], prev[n]>>]

(* C16 as stated: in a call of advise every advisor that is subscribed  *)
(* when the call begins and is not disposed during the call is advised  *)
(* exactly once, and no advisor is advised twice.                       *)
C16_AdvisedOnce ==
  vop.op = "advise" =>
    \A a \in vop.start :
      /\ Times(a) <= 1
      /\ a \notin (DisposedNow \ vop.pre.disposed) => Times(a) = 1

(* C16 amended: a call of advise runs the advisors subscribed when it   *)
(* begins one after the other, each at most once and none that was not  *)
(* subscribed, also when advisors dispose themselves and cancel their   *)
(* subscription while they are advised.  It stops at the first advisor  *)
(* whose propagator returns ES_FAILED and then returns false; the       *)
(* advisors after that one are not advised and stay subscribed.  When   *)
(* no advisor returns ES_FAILED it returns true and every advisor       *)
(* subscribed at the start was advised exactly once.                    *)
C16_AdvisedOnceUnlessFailed ==
  vop.op = "advise" =>
    /\ vop.ok
    /\ \A a \in Advs(1) : Times(a) <= 1
    /\ Range(vop.log) \subseteq vop.start
    /\ vop.ret = (\A i \in 1..Len(vop.log) : vop.res[vop.log[i]] # "ES_FAILED")
    /\ vop.ret => Range(vop.log) = vop.start
    /\ ~vop.ret =>
         /\ vop.res[vop.log[Len(vop.log)]] = "ES_FAILED"
         /\ \A i \in 1..(Len(vop.log) - 1) : vop.res[vop.log[i]] # "ES_FAILED"
    /\ \A a \in vop.start \ Range(vop.log) :
         a \in InSlice(Cur, TheVar, pc_max + 1) /\ a \notin DisposedNow

(* three advisors are advised of which the first two dispose themselves *)
C16_Witness ==
  /\ vop.op = "advise" /\ vop.ret
  /\ Len(vop.log) = 3
  /\ vop.res[vop.log[1]] = "ES_SUBSUMED_FIX"
  /\ vop.res[vop.log[2]] = "ES_SUBSUMED_NOFIX"
  /\ vop.res[vop.log[3]] = "ES_FIX"

(* the advisors that existed and were not disposed when the call began *)
LiveBefore == {a \in Advs(1) : ast[a] = "live"} \ vop.pre.disposed

ArrayKept(W0, W1) ==
  /\ W1.vbase = W0.vbase /\ W1.ventries = W0.ventries /\ W1.vidx = W0.vidx
  /\ W1.vfab = W0.vfab /\ W1.mem = W0.mem /\ W1.n_sub = W0.n_sub
  /\ W1.brk = W0.brk

(* the events and the queues of the propagators are as they were *)
QueuesUntouched(W0, W1) ==
  /\ W1.u = W0.u /\ W1.fifo = W0.fifo /\ W1.active = W0.active
  /\ W1.next = W0.next /\ W1.prev = W0.prev

(* propagator p was scheduled with event me: me is added to the events *)
(* of p, and if that changes them p is put at the end of the queue of  *)
(* its cost                                                            *)
Scheduled(W0, W1, p, me) ==
  LET c == W0.pcost[p]
  IN /\ W1.u = [W0.u EXCEPT ![p] = MeCombine(@, me)]
     /\ IF W1.u[p] # W0.u[p]
        THEN /\ W1.fifo[1][c] = Append(Without(W0.fifo[1][c], p), p)
             /\ W1.prev[Queue(1, c)] = p
             /\ W1.active[1] >= Queue(1, c)
        ELSE QueuesUntouched(W0, W1)

(* the slices of the array: the propagator conditions and the advisors *)
Conds == 0..(pc_max + 1)

(* how often each actor occurs in the slice of condition pc *)
SliceCount(W, pc) ==
  [a \in Props(1) \cup Advs(1) |->
     Cardinality({t \in Slice(W, TheVar, pc) : W.mem[t] = a})]

(* the array of W2 has the entries, boundaries and slices of that of W0 *)
Restored(W0, W2) ==
  /\ W2.ventries[TheVar] = W0.ventries[TheVar]
  /\ W2.vidx[TheVar] = W0.vidx[TheVar]
  /\ W2.n_sub[1] = W0.n_sub[1]
  /\ \A pc \in Conds : SliceCount(W2, pc) = SliceCount(W0, pc)

(* the slice of pc in W1 is that of W0 with d occurrences of actor a   *)
(* more, the other slices hold what they held, and entries and n_sub   *)
(* moved by d                                                          *)
SliceMoved(W0, W1, a, pc, d) ==
  /\ SliceCount(W1, pc) = [SliceCount(W0, pc) EXCEPT ![a] = @ + d]
  /\ \A pc2 \in Conds \ {pc} : SliceCount(W1, pc2) = SliceCount(W0, pc2)
  /\ W1.ventries[TheVar] = W0.ventries[TheVar] + d
  /\ W1.n_sub[1] = W0.n_sub[1] + d

(* the states in which subscribe is examined: the current one and, *)
(* when the array holds MaxEntries entries, those that one more    *)
(* subscription leaves, where the array is full and the next       *)
(* subscription has to resize it                                   *)
Beyond ==
  {Cur} \cup
    (IF ventries[TheVar] = MaxEntries /\ EnterOk(Cur, 1, TheVar)
     THEN {SubscribeProp(Cur, 1, TheVar, p, pc, FALSE, ME_GEN_NONE, FALSE) :
             p \in LiveProps, pc \in 0..pc_max}
     ELSE {})

(* C18: subscribe with assigned = true does not enter the propagator:   *)
(* the array, entries, idx, the free count and n_sub stay as they are,  *)
(* and the propagator is scheduled, with ME_GEN_ASSIGNED, exactly if    *)
(* schedule is true; cancel with assigned = true, of a propagator and   *)
(* of an advisor, changes nothing.                                      *)
C18_AssignedNoEntry ==
  /\ \A p \in LiveProps, pc \in 0..pc_max, schedule \in BOOLEAN,
        me \in Events \cup {ME_GEN_NONE} :
       \A W1 \in {SubscribeProp(Cur, 1, TheVar, p, pc, TRUE, me, schedule)} :
         /\ ArrayKept(Cur, W1)
         /\ IF schedule THEN Scheduled(Cur, W1, p, ME_GEN_ASSIGNED)
            ELSE QueuesUntouched(Cur, W1)
  /\ \A p \in LiveProps, pc \in 0..pc_max :
       \A W1 \in {CancelProp(Cur, 1, TheVar, p, pc, TRUE)} :
         ArrayKept(Cur, W1) /\ QueuesUntouched(Cur, W1)
  /\ \A a \in LiveAdvs :
       \A W1 \in {CancelAdv(Cur, 1, TheVar, a, TRUE)} :
         ArrayKept(Cur, W1) /\ QueuesUntouched(Cur, W1)

(* a propagator is queued with ME_GEN_ASSIGNED although the array of  *)
(* the variable holds other entries and not the propagator            *)
C18_Witness ==
  \E p \in LiveProps :
    /\ u[p] = ME_GEN_ASSIGNED
    /\ p \in Range(fifo[1][pcost[p]])
    /\ ventries[TheVar] = 2
    /\ \A pc \in Conds : p \notin InSlice(Cur, TheVar, pc)

(* C19: subscribe with assigned = false adds the propagator to the      *)
(* slice of pc, leaves the other slices and the advisors as they are,   *)
(* increases entries and n_sub by one, and schedules the propagator     *)
(* with me exactly if schedule is true and pc is not PC_GEN_ASSIGNED.   *)
C19_SubscribeEnters ==
  \A W0 \in Beyond :
    EnterOk(W0, 1, TheVar) =>
      \A p \in LiveProps, pc \in 0..pc_max, schedule \in BOOLEAN,
         me \in Events :
        \A W1 \in {SubscribeProp(W0, 1, TheVar, p, pc, FALSE, me, schedule)} :
          /\ SliceMoved(W0, W1, p, pc, 1)
          /\ IF schedule /\ pc # PC_GEN_ASSIGNED
             THEN Scheduled(W0, W1, p, me)
             ELSE QueuesUntouched(W0, W1)

(* every slice holds an entry; the propagator of condition 0 was     *)
(* subscribed first, the one of condition PC_GEN_ASSIGNED is not     *)
(* queued and the other one is                                       *)
C19_Witness ==
  /\ ventries[TheVar] = 3
  /\ \A pc \in Conds : Cardinality(Slice(Cur, TheVar, pc)) = 1
  /\ \E p \in InSlice(Cur, TheVar, PC_GEN_ASSIGNED) : u[p] = ME_GEN_NONE
  /\ \E p \in InSlice(Cur, TheVar, pc_max) : u[p] = ME_OTHER

(* C20: cancel of an unassigned variable removes one occurrence of the  *)
(* actor from its slice and nothing else; subscribe followed by cancel  *)
(* gives back entries, idx, n_sub and the slices as they were, for      *)
(* propagators and for advisors.                                        *)
C20_CancelInverts ==
  /\ \A pc \in 0..pc_max : \A p \in InSlice(Cur, TheVar, pc) :
       \A W1 \in {CancelProp(Cur, 1, TheVar, p, pc, FALSE)} :
         SliceMoved(Cur, W1, p, pc, -1) /\ QueuesUntouched(Cur, W1)
  /\ \A a \in InSlice(Cur, TheVar, pc_max + 1) :
       \A W1 \in {CancelAdv(Cur, 1, TheVar, a, FALSE)} :
         SliceMoved(Cur, W1, a, pc_max + 1, -1) /\ QueuesUntouched(Cur, W1)
  /\ \A W0 \in Beyond :
       EnterOk(W0, 1, TheVar) =>
         /\ \A p \in LiveProps, pc \in 0..pc_max, schedule \in BOOLEAN,
               me \in Events :
              \A W1 \in {SubscribeProp(W0, 1, TheVar, p, pc, FALSE, me,
                                       schedule)} :
                Restored(W0, CancelProp(W1, 1, TheVar, p, pc, FALSE))
         /\ \A a \in LiveAdvs \ InSlice(W0, TheVar, pc_max + 1) :
              \A W1 \in {SubscribeAdv(W0, 1, TheVar, a, FALSE)} :
                Restored(W0, CancelAdv(W1, 1, TheVar, a, FALSE))

(* a propagator and an advisor were subscribed and cancelled while      *)
(* another propagator stayed: one entry is left and the slots after it  *)
(* still hold what was removed                                          *)
C20_Witness ==
  /\ vbase[TheVar] # NULL
  /\ ventries[TheVar] = 1 /\ n_sub[1] = 1
  /\ mem[vbase[TheVar]] \in Props(1)
  /\ mem[vbase[TheVar] + 1] \in Props(1) \ {mem[vbase[TheVar]]}
  /\ mem[vbase[TheVar] + 2] \in Advs(1)

(* C21: after any sequence of subscribe and cancel of propagators and   *)
(* advisors the boundaries are weakly increasing and within the used    *)
(* part of the array, idx(1) <= ... <= idx(pc_max+1) <= entries; every  *)
(* propagator subscribed with condition pc is in the slice of pc and    *)
(* every subscribed advisor is in the last slice.                       *)
C21_Partition ==
  /\ \A pc \in 1..pc_max : vidx[TheVar][pc] <= vidx[TheVar][pc + 1]
  /\ vidx[TheVar][pc_max + 1] <= ventries[TheVar]
  /\ \A pc \in Conds : \A a \in Props(1) \cup Advs(1) :
       subd[pc][a] > 0 => a \in InSlice(Cur, TheVar, pc)
  /\ \A pc \in 0..pc_max : InSlice(Cur, TheVar, pc) \subseteq Props(1)
  /\ InSlice(Cur, TheVar, pc_max + 1) \subseteq Advs(1)

(* a propagator is subscribed with both conditions and an advisor is *)
(* subscribed: the boundaries differ and the last one is below       *)
(* entries                                                           *)
C21_Witness ==
  /\ \E p \in LiveProps : subd[0][p] = 1 /\ subd[pc_max][p] = 1
  /\ \E a \in LiveAdvs : subd[pc_max + 1][a] = 1
  /\ vidx[TheVar][1] = 1
  /\ vidx[TheVar][pc_max + 1] = 2
  /\ ventries[TheVar] = 3

(* C22: for every condition pc the slice of pc never holds the same     *)
(* propagator twice, after any sequence of subscribe and cancel.        *)
C22_NoDuplicates ==
  \A pc \in 0..pc_max : \A p \in Props(1) : SliceCount(Cur, pc)[p] <= 1

(***************************************************************************)
(* Scheduling during propagation.                                          *)
(***************************************************************************)
(* the positions <<c, i>> of the cost queues of space 1 that hold p *)
Positions(p) ==
  {ci \in (0..PC_MAX) \X (1..(MaxProp + MaxBranch)) :
     LET q == ListOf(Cur, Queue(1, ci[1]))
     IN ci[2] <= Len(q) /\ q[ci[2]] = p}

(* event me is among the events accumulated for propagator p *)
Accumulated(p, me) == u[p] # ME_GEN_NONE /\ MedUpdate(u[p], me) = u[p]

(* C23: schedule(p, me) for an event that p has accumulated leaves the  *)
(* events of p, its queue and its position as they are; a modification  *)
(* event of a variable schedules a subscribed propagator once, a second *)
(* delivery of the event in the same round changes nothing; and no      *)
(* propagator is at more than one position of the cost queues.          *)
C23_ScheduleIdempotent ==
  /\ \A p \in LiveProps, me \in Events :
       Accumulated(p, me) => Schedule(Cur, 1, p, me) = Cur
  /\ \A x \in Vars(1), me \in Events :
       \A W1 \in {ScheduleRange(Cur, 1, x, FirstCond(me), pc_max, me)} :
         ScheduleRange(W1, 1, x, FirstCond(me), pc_max, me) = W1
  /\ \A p \in Props(1) :
       /\ Cardinality(Positions(p)) <= 1
       /\ Positions(p) # {} <=> p \in Queued(1)

(* during propagation two propagators are in one queue, the first with *)
(* an accumulated event, and both are subscribed to the variable       *)
C23_Witness ==
  /\ mode[1] = "run"
  /\ \E c \in Costs :
       /\ Len(fifo[1][c]) = 2
       /\ Accumulated(fifo[1][c][1], ME_OTHER)
       /\ \A i \in 1..2 :
            \E pc \in 1..pc_max : fifo[1][c][i] \in InSlice(Cur, TheVar, pc)

(***************************************************************************)
(* The branchings for status and for commit.                               *)
(***************************************************************************)
(* the position of b in the list of actors of space 1; the sentinel is *)
(* after every actor                                                   *)
ActorPos(b) ==
  LET q == ListOf(Cur, AActors(1))
  IN IF b = AActors(1) THEN Len(q) + 1
     ELSE IF b \in Range(q) THEN Least({i \in 1..Len(q) : q[i] = b})
     ELSE 0

PostAssigned(s) ==
  /\ Ready(s) /\ Building(s) /\ FreeProp(Cur, s) # {}
  /\ \E cost \in Costs, x \in Vars(s), pc \in 0..pc_max :
       LET p == Least(FreeProp(Cur, s))
           W1 == PropagatorCtor(Cur, s, p, cost)
           W2 == SubscribeProp(W1, s, x, p, pc, TRUE, ME_GEN_NONE, TRUE)
       IN Store(Returned(W2, s, "post", "none", NoHist))

(* the propagator has nothing to dispose: no subscription, no advisor, *)
(* no property noticed                                                 *)
NothingToDispose(W, s, p) ==
  /\ Subscriptions(W, s, p) = {}
  /\ W.council[p] = NULL
  /\ W.ap[p] = 0

SizeForms == {"ES_SUBSUMED_DISPOSE", "ES_SUBSUMED_SIZEOF"}

(* status() executes a propagator that returns ES_SUBSUMED(p,size) *)
PropagateSize(s) ==
  /\ exists[s] /\ mode[s] = "run"
  /\ ~SpaceFailed(Cur, s) /\ ~SpaceStable(Cur, s)
  /\ \E out \in SizeForms :
       /\ out = "ES_SUBSUMED_SIZEOF" => NothingToDispose(Cur, s, Picked(Cur, s))
       /\ Store(StatusExec(Cur, s, <<>>, NULL, out, ME_GEN_NONE))

NextSubsume ==
  \/ Post(1)
  \/ PostAssigned(1)
  \/ PostAdvisor(1)
  \/ Status(1)
  \/ Propagate(1)
  \/ PropagateSize(1)
  \/ Return(1)

SpecSubsume == Init /\ [][NextSubsume]_vars

(* Space::propagators: the propagators in the list of actors and in the *)
(* queues                                                               *)
SpacePropagators(W, s) ==
  Cardinality({p \in Props(s) :
                 \/ p \in Range(ListOf(W, AActors(s)))
                 \/ \E c \in 0..PC_MAX : p \in Range(ListOf(W, Queue(s, c)))})

(* the step is an execution of propagator p by status() *)
Executes(p) == executed'[1] = executed[1] + 1 /\ hist'[1].ran = p

Subsumed == {"ES_SUBSUMED"} \cup SizeForms

(* a subsumed propagator is in no list, no queue and no array, and has *)
(* no advisor left that is subscribed                                  *)
Removed(p) ==
  /\ p \notin Queued(1)
  /\ \A l \in {AActors(1)} \cup Queues(1) : p \notin Range(ListOf(Cur, l))
  /\ Subscriptions(Cur, 1, p) = {}
  /\ \A a \in Advs(1) :
       (ast[a] = "live" /\ prev[a] = p) => Subscriptions(Cur, 1, a) = {}

(* an execution that returns ES_SUBSUMED takes one propagator out of the *)
(* space, and a subsumed propagator is not executed and not disposed     *)
SubsumedStep ==
  \A p \in Props(1) :
    /\ (Executes(p) /\ hist'[1].outcome \in Subsumed) =>
         /\ pst[p] = "live" /\ pst'[p] = "gone"
         /\ SpacePropagators(Cur', 1) = SpacePropagators(Cur, 1) - 1
    /\ pst[p] = "gone" =>
         /\ ~Executes(p)
         /\ pst'[p] = "gone"
         /\ ndisp'[p] = ndisp[p]
         /\ u'[p] = u[p]

OldBlock == 5000

(* the block that ralloc hands out *)
NewBlock == 6000

SizeT(x) == x % (2 ^ SizeBits)

UInt(x) == x % (2 ^ UIntBits)

(* rrealloc(b,n,m): what it returns, how many bytes it copies, and the *)
(* block it gives to rfree                                             *)
Rrealloc(b, n, m) ==
  IF n < m
  THEN [ret |-> NewBlock, copied |-> n, freed |-> <<b, n>>]
  ELSE [ret |-> b, copied |-> 0, freed |-> <<b + m, SizeT(m - n)>>]

(* free<T>(b,n) for objects of st bytes: the block it gives to rfree *)
TypedFree(b, n, st) == <<b, SizeT(n * st)>>

(* realloc<T>(b,n,m) for a class T of st bytes; addresses in bytes *)
Realloc(b, n, m, st) ==
  IF n < m
  THEN [ret |-> NewBlock, copied |-> n * st, freed |-> TypedFree(b, n, st)]
  ELSE [ret |-> b, copied |-> 0,
        freed |-> TypedFree(b + m * st, UInt(m - n), st)]

(* realloc<T>(b,n,m) for a basic type T of st bytes *)
ReallocBasic(b, n, m, st) == Rrealloc(b, SizeT(n * st), SizeT(m * st))

(* realloc(b,n,m) for an array of pointers to T, T of st bytes *)
ReallocPtr(b, n, m, st) == Rrealloc(b, SizeT(n * st), SizeT(m * PtrBytes))

ReallocKinds == {"bytes", "class", "basic", "pointer"}

(* the arguments of the call *)
InitRealloc ==
  /\ InitSpace /\ bab = NoBab
  /\ ra \in [kind : ReallocKinds, st : 1..MaxObjSize, b : {OldBlock},
             n : 0..MaxCount, m : 0..MaxCount, done : {FALSE},
             ret : {NULL}, copied : {0}, freed : {<<NULL, 0>>}]
  /\ ra.kind = "bytes" => ra.st = 1

ReallocCall ==
  /\ ra.kind # "none" /\ ~ra.done
  /\ \E r \in {CASE ra.kind = "bytes" -> Rrealloc(ra.b, ra.n, ra.m)
                 [] ra.kind = "class" -> Realloc(ra.b, ra.n, ra.m, ra.st)
                 [] ra.kind = "basic" -> ReallocBasic(ra.b, ra.n, ra.m, ra.st)
                 [] ra.kind = "pointer" ->
                      ReallocPtr(ra.b, ra.n, ra.m, ra.st)} :
       Store([Cur EXCEPT !.ra = [ra EXCEPT !.done = TRUE, !.ret = r.ret,
                                           !.copied = r.copied,
                                           !.freed = r.freed]])

NextRealloc == ReallocCall

SpecRealloc == InitRealloc /\ [][NextRealloc]_vars

(* the size in bytes of the objects of the block of the call *)
ElemBytes ==
  CASE ra.kind = "bytes" -> 1
    [] ra.kind = "pointer" -> PtrBytes
    [] OTHER -> ra.st

(* C26: rrealloc(b,n,m) for m > n returns a new block of m bytes that   *)
(* holds the n bytes of the old one and releases the n old bytes; for   *)
(* m <= n it returns b and releases the n - m bytes from b + m on, a    *)
(* size computed without wrap-around; realloc of n objects to m objects *)
(* does the same on objects.                                            *)
C26_Realloc ==
  ra.done =>
    IF ra.m > ra.n
    THEN /\ ra.ret = NewBlock
         /\ ra.copied = ra.n * ElemBytes
         /\ ra.freed = <<ra.b, ra.n * ElemBytes>>
    ELSE /\ ra.ret = ra.b
         /\ ra.freed = <<ra.b + ra.m * ElemBytes, (ra.n - ra.m) * ElemBytes>>

(***************************************************************************)
(* Cloning of the variables (SpecCloneVars): propagators and advisors are  *)
(* posted on any variable of the space, the space is propagated to a      *)
(* fixpoint and cloned, and the clone is dropped.                         *)
(***************************************************************************)
NextCloneVars ==
  \/ PostOn(1, Vars(1)) /\ \A p \in Props(1) : pcost'[p] # PC_LINEAR_LO
  \/ PostAdvisorOn(1, Vars(1))
  \/ lastOp[1] # "status" /\ Status(1)
  \/ Propagate(1) /\ hist'[1].outcome \in Final
  \/ Return(1)
  \/ Clone
  \/ lastOp[1] = "clone" /\ Drop

SpecCloneVars == Init /\ [][NextCloneVars]_vars

(* clone() has returned a clone that has not been used since *)
JustCloned ==
  lastOp[1] = "clone" /\ hist[1].made /\ exists[2] /\ lastOp[2] = "none"

(* the slots of the subscription array of variable x *)
ArrayOf(x) == {vbase[x] + i : i \in 0..(ventries[x] - 1)}

(* the variables of space s that have a subscription array *)
Indexed(s) == {x \in Vars(s) : vbase[x] # NULL}

(* the slots of the arrays of the clone's variables *)
ClonedSlots == UNION {ArrayOf(x) : x \in Indexed(2)}

(* the propagators and advisors of space s *)
Live(s) ==
  {p \in Props(s) : pst[p] = "live"} \cup {a \in Advs(s) : ast[a] = "live"}

(* C27: after clone, the clone of every variable has the entries and idx  *)
(* of the original, no free slots and the original's user bits, and its   *)
(* slot i holds the clone of the actor in slot i of the original; the     *)
(* arrays of the clone's variables are disjoint, lie one after the other  *)
(* from the start of the clone's subscription region, and take no more    *)
(* slots than the original's n_sub.                                       *)
C27_ClonedVars ==
  JustCloned =>
    /\ \A x \in Vars(1) :
         /\ ventries[Twin(x)] = ventries[x]
         /\ vidx[Twin(x)] = vidx[x]
         /\ vfab[Twin(x)] \div FB = 0
         /\ vfab[Twin(x)] % FB = vfab[x] % FB
         /\ (vbase[x] = NULL) = (vbase[Twin(x)] = NULL)
         /\ \A i \in 0..(ventries[x] - 1) :
              /\ mem[vbase[Twin(x)] + i] = Twin(mem[vbase[x] + i])
              /\ mem[vbase[x] + i] \in Live(1)
              /\ Twin(mem[vbase[x] + i]) \in Live(2)
    /\ \A x, y \in Indexed(2) : x # y => ArrayOf(x) \cap ArrayOf(y) = {}
    /\ ClonedSlots = {a \in Slots(2) :
                         /\ subs[2] <= a
                         /\ a < subs[2] + Cardinality(ClonedSlots)}
    /\ Cardinality(ClonedSlots) <= n_sub[1]

(* a space with two variables that have a subscription each, one of them *)
(* with free slots, has been cloned                                      *)
C27_Witness ==
  /\ JustCloned
  /\ \A x \in Vars(1) : ventries[x] > 0
  /\ \E x \in Vars(1) : vfab[x] \div FB > 0
  /\ \E x \in Vars(1) : mem[vbase[x]] \in Advs(1)

(***************************************************************************)
(* Cloning of councils (SpecCouncil): propagators create advisors in      *)
(* their councils and dispose some of them; the space is cloned and the   *)
(* clone is dropped.                                                      *)
(***************************************************************************)
(* a propagator disposes an advisor of its council: a.dispose(home,c) *)
DisposeAdvisor ==
  \E a \in LiveAdvs : Store([AdvisorSubsumed(Cur, 1, a) EXCEPT !.vop = NoOp])

NextCouncil ==
  \/ ~exists[2] /\ NewPropagator
  \/ ~exists[2] /\ NewAdvisor
  \/ ~exists[2] /\ DisposeAdvisor
  \/ Clone
  \/ lastOp[1] = "clone" /\ Drop

SpecCouncil == Init /\ [][NextCouncil]_vars

(* the advisors linked from a, at most n of them *)
RECURSIVE Chain(_, _, _)
Chain(W, a, n) ==
  IF a = NULL \/ n = 0 THEN <<>>
  ELSE <<a>> \o Chain(W, W.next[a], n - 1)

(* the advisors of the council of propagator p, in the order of the list *)
CouncilAdvisors(W, p) == Chain(W, W.council[p], MaxCouncil + 1)

(* the advisors of propagator p that were not disposed when clone began *)
Members(p) ==
  {a \in Advs(1) : ast[a] = "live" /\ hist[1].pre.advprev[a] = p}

(* C28: after clone, the council of the clone of every propagator has one *)
(* advisor for every advisor of the original council that was not         *)
(* disposed, and each refers to the clone of the propagator; a disposed   *)
(* advisor has no clone and is no longer in the list of the original      *)
(* council; every advisor of the original refers to its propagator again  *)
(* and the advisors field of every original propagator is NULL.           *)
C28_CouncilUpdate ==
  JustCloned =>
    /\ \A p \in Props(1) : pst[p] = "live" =>
         /\ Range(CouncilAdvisors(Cur, Twin(p))) = {Twin(a) : a \in Members(p)}
         /\ Len(CouncilAdvisors(Cur, Twin(p))) = Cardinality(Members(p))
         /\ \A c \in Range(CouncilAdvisors(Cur, Twin(p))) :
              ast[c] = "live" /\ prev[c] = Twin(p)
         /\ Range(CouncilAdvisors(Cur, p)) = Members(p)
         /\ Len(CouncilAdvisors(Cur, p)) = Cardinality(Members(p))
         /\ \A a \in Members(p) : prev[a] = p
         /\ u[p] = NULL
    /\ \A a \in Advs(1) :
         ast[a] = "live" /\ hist[1].pre.advprev[a] = NULL
           => ast[Twin(a)] = "free"

(* a space has been cloned in which a propagator has an advisor, another *)
(* propagator has one too, and a disposed advisor was the first of its   *)
(* council when clone began                                              *)
C28_Witness ==
  /\ JustCloned
  /\ \A p \in Props(1) : pst[p] = "live" /\ Members(p) # {}
  /\ \E p \in Props(1) :
       /\ hist[1].pre.council[p] \in Advs(1)
       /\ hist[1].pre.advprev[hist[1].pre.council[p]] = NULL

(***************************************************************************)
(* Advisors of several propagators (SpecAdvisors): propagators are        *)
(* created, each creates advisors and subscribes them to the variable,    *)
(* and the variable advises.  The effect of advise is examined in every   *)
(* reachable state, for every event and every choice of what the          *)
(* propagators return.                                                    *)
(***************************************************************************)
AdviseCall ==
  \E me \in Events :
  \E r \in [InSlice(Cur, TheVar, pc_max + 1) -> AdvOutcomes] :
  \E R \in {VarAdvise(Cur, 1, TheVar, me, r)} :
    Store([R.w EXCEPT !.vop = NoOp])

NextAdvisors ==
  \/ NewPropagator
  \/ NewSubscribedAdvisor
  \/ AdviseCall

SpecAdvisors == Init /\ [][NextAdvisors]_vars

(* the advisors subscribed to the variable, in the order of the array *)
Subscribed ==
  [i \in 1..(ventries[TheVar] - vidx[TheVar][pc_max + 1]) |->
     mem[vbase[TheVar] + vidx[TheVar][pc_max + 1] + i - 1]]

(* the advisors of propagator p that a call of advise has run and that *)
(* returned ES_NOFIX, given the advisors it has run and what each      *)
(* returns                                                             *)
Nofix(log, r, p) ==
  {a \in Range(log) :
     prev[a] = p /\ r[a] \in {"ES_NOFIX", "ES_SUBSUMED_NOFIX"}}

(* advise, called in the current state with event me, where r is what   *)
(* the propagators return, has left R: it has run the advisors in the   *)
(* order of the array up to the first that returned ES_FAILED, returned *)
(* false if there is one, and scheduled with me the propagators in S    *)
(* and no other                                                         *)
Advised(R, me, r, S) ==
  /\ ~R.ret <=> \E a \in Range(R.log) : r[a] = "ES_FAILED"
  /\ \A i \in 1..Len(R.log) :
       /\ i <= Len(Subscribed) /\ R.log[i] = Subscribed[i]
       /\ r[R.log[i]] = "ES_FAILED" => i = Len(R.log)
  /\ R.ret => Len(R.log) = Len(Subscribed)
  /\ \A p \in Props(1) :
       R.w.u[p] = IF p \in S THEN MeCombine(u[p], me) ELSE u[p]
  /\ \A c \in 0..PC_MAX :
       \A moved \in {{p \in S : R.w.u[p] # u[p] /\ pcost[p] = c}} :
         /\ Range(R.w.fifo[1][c]) = Range(fifo[1][c]) \cup moved
         /\ Len(R.w.fifo[1][c]) = Cardinality(Range(R.w.fifo[1][c]))
         /\ SelectSeq(R.w.fifo[1][c], LAMBDA p : p \notin moved)
              = SelectSeq(fifo[1][c], LAMBDA p : p \notin moved)
         /\ \A i, j \in 1..Len(R.w.fifo[1][c]) :
              R.w.fifo[1][c][i] \notin moved /\ R.w.fifo[1][c][j] \in moved
                => i < j
  /\ Len(Subscribed) = 0 => R.ret /\ R.log = <<>> /\ R.w = Cur

(* C29: advise(me,d) returns false at the first advisor that returns     *)
(* ES_FAILED and does not run the advisors after it; otherwise it        *)
(* returns true and has scheduled with me the propagators of the         *)
(* advisors that returned ES_NOFIX and no other propagator; without an   *)
(* advisor it returns true and changes nothing.                          *)
C29_AdviseSchedules ==
  \A me \in Events :
  \A r \in [InSlice(Cur, TheVar, pc_max + 1) -> AdvOutcomes] :
  \A R \in {VarAdvise(Cur, 1, TheVar, me, r)} :
    Advised(R, me, r, {p \in Props(1) : Nofix(R.log, r, p) # {}})

(* two propagators have advisors on the variable, two of one and one of *)
(* the other, and advise has scheduled one of the propagators and not   *)
(* the other                                                            *)
C29_Witness ==
  /\ Len(Subscribed) = 3
  /\ \E p, q \in LiveProps :
       /\ p # q
       /\ prev[Subscribed[1]] = p
       /\ prev[Subscribed[2]] = q /\ prev[Subscribed[3]] = q
       /\ u[p] = ME_GEN_NONE /\ u[q] = ME_OTHER
       /\ fifo[1][PC_UNARY_LO] = <<q>>

(***************************************************************************)
(* Scheduling by condition (SpecSchedule): propagators and advisors        *)
(* subscribe to the variable and cancel, without being scheduled by the    *)
(* subscription, and the variable schedules the propagators of a range of  *)
(* conditions.                                                             *)
(***************************************************************************)
(* x.schedule(home,pc1,pc2,me) *)
ScheduleCall ==
  \E pc1, pc2 \in 0..pc_max, me \in Events :
  \E W1 \in {ScheduleRange(Cur, 1, TheVar, pc1, pc2, me)} :
    Store(W1)

NextSchedule ==
  \/ NewPropagator
  \/ NewAdvisor /\ Cardinality(Advs(1) \ FreeAdv(Cur, 1)) < MaxAdv
  \/ \E p \in LiveProps, pc \in 0..pc_max :
       SubscribeCall(p, pc, FALSE, ME_GEN_NONE, FALSE)
  \/ \E p \in LiveProps, pc \in 0..pc_max : CancelCall(p, pc, FALSE)
  \/ \E a \in LiveAdvs : SubscribeAdvisorCall(a, FALSE)
  \/ \E a \in LiveAdvs : CancelAdvisorCall(a, FALSE)
  \/ ScheduleCall

SpecSchedule == Init /\ [][NextSchedule]_vars

(* the slots of the slices of the conditions pc1 to pc2 *)
RangeSlots(pc1, pc2) == UNION {Slice(Cur, TheVar, pc) : pc \in pc1..pc2}

(* the last slot among T that holds propagator p *)
LastSlot(T, p) ==
  CHOOSE t \in T : mem[t] = p /\ \A t2 \in T : mem[t2] = p => t2 <= t

(* W1 is the current state after the propagators in the slots T have  *)
(* been scheduled with me, those in later slots first, and no other   *)
(* propagator and no advisor has been touched                         *)
ScheduledDown(W1, T, me) ==
  /\ \A p \in Props(1) :
       W1.u[p] = IF p \in {mem[t] : t \in T} THEN MeCombine(u[p], me)
                 ELSE u[p]
  /\ \A c \in 0..PC_MAX :
       \A moved \in {{p \in {mem[t] : t \in T} :
                        W1.u[p] # u[p] /\ pcost[p] = c}} :
         /\ Range(W1.fifo[1][c]) = Range(fifo[1][c]) \cup moved
         /\ Len(W1.fifo[1][c]) = Cardinality(Range(W1.fifo[1][c]))
         /\ SelectSeq(W1.fifo[1][c], LAMBDA p : p \notin moved)
              = SelectSeq(fifo[1][c], LAMBDA p : p \notin moved)
         /\ \A i, j \in 1..Len(W1.fifo[1][c]) :
              /\ W1.fifo[1][c][i] \notin moved /\ W1.fifo[1][c][j] \in moved
                   => i < j
              /\ W1.fifo[1][c][i] \in moved /\ W1.fifo[1][c][j] \in moved
                   /\ i < j
                   => LastSlot(T, W1.fifo[1][c][i])
                        > LastSlot(T, W1.fifo[1][c][j])
         /\ Range(W1.fifo[1][c]) \subseteq Props(1)
         /\ Range(W1.fifo[1][c]) = Range(Walk(W1, Queue(1, c),
                                              W1.next[Queue(1, c)],
                                              MaxProp + 1))
  /\ ArrayKept(Cur, W1)
  /\ \A a \in Advs(1) : W1.prev[a] = prev[a] /\ W1.next[a] = next[a]
  /\ W1.pst = pst /\ W1.ast = ast /\ W1.pcost = pcost /\ W1.council = council

(* C30: schedule(pc1,pc2,me) schedules with me the propagators that    *)
(* are subscribed with a condition from pc1 to pc2, those at later     *)
(* positions of the array first, and no propagator that is subscribed  *)
(* only with other conditions; no advisor is scheduled or changed.     *)
C30_ScheduleRange ==
  \A pc1, pc2 \in 0..pc_max, me \in Events :
  \A W1 \in {ScheduleRange(Cur, 1, TheVar, pc1, pc2, me)} :
    /\ ScheduledDown(W1, RangeSlots(pc1, pc2), me)
    /\ \A t \in RangeSlots(pc1, pc2) : mem[t] \in Props(1)

(* two propagators and an advisor are subscribed and the two propagators *)
(* have been scheduled, the one at the later position first              *)
C30_Witness ==
  /\ ventries[TheVar] = 3 /\ vidx[TheVar][pc_max + 1] = 2
  /\ \E p, q \in LiveProps :
       /\ p # q
       /\ mem[vbase[TheVar]] = q /\ mem[vbase[TheVar] + 1] = p
       /\ u[p] = ME_OTHER /\ u[q] = ME_OTHER
       /\ fifo[1][PC_UNARY_LO] = <<p, q>>

(***************************************************************************)
(* Growth of the subscription arrays (SpecResize): a propagator subscribes *)
(* with PC_GEN_ASSIGNED, again and again, to the variables of the space    *)
(* until their arrays are full and grow; the                               *)
(* space is cloned, and the clone of the propagator subscribes to and      *)
(* cancels from the variables of the clone, whose arrays lie in the        *)
(* subscription region of the clone, while the original rests.             *)
(***************************************************************************)
LivePropsOf(s) == {p \in Props(s) : pst[p] = "live"}

(* x.subscribe(home,p,pc,false,me,false) in space s *)
GrowSubscribe(s) ==
  /\ exists[s] /\ exists[2] = (s = 2)
  /\ n_sub[s] < MaxGrow
  /\ \E x \in Vars(s), p \in LivePropsOf(s), pc \in {PC_GEN_ASSIGNED} :
       /\ EnterOk(Cur, s, x)
       /\ \E W1 \in {SubscribeProp(Cur, s, x, p, pc, FALSE, ME_GEN_NONE,
                                   FALSE)} :
            Store(W1)

(* x.cancel(home,p,pc,false) in the clone *)
GrowCancel ==
  /\ exists[2]
  /\ \E x \in Vars(2), p \in LivePropsOf(2), pc \in {PC_GEN_ASSIGNED} :
       /\ p \in InSlice(Cur, x, pc)
       /\ \E W1 \in {CancelProp(Cur, 2, x, p, pc, FALSE)} : Store(W1)

NextResize ==
  \/ ~exists[2] /\ LiveProps = {} /\ NewPropagator
  \/ GrowSubscribe(1)
  \/ Clone
  \/ GrowSubscribe(2)
  \/ GrowCancel

SpecResize == Init /\ [][NextResize]_vars

(* the subscription region of the clone has the slots that the original  *)
(* had subscriptions when it was cloned; the original rests since, so    *)
(* these are n_sub of the original.  The array of x lies in the region.  *)
InRegion(s, x) ==
  s = 2 /\ subs[2] <= vbase[x] /\ vbase[x] < subs[2] + n_sub[1]

(* variable x of space s is full and a subscription can be entered *)
Full(s, x) ==
  exists[s] /\ VarFree(Cur, x) = 0 /\ EnterOk(Cur, s, x)
    /\ LivePropsOf(s) # {}

(* resize has left R, and enter of a propagator has left E: the array of *)
(* x has cap slots in a new block, its entries are those it had, in      *)
(* their order, and entries and free slots make cap                      *)
Grown(R, E, s, x, cap) ==
  /\ R.vbase[x] = brk[s] /\ R.brk[s] = brk[s] + cap
  /\ R.ventries[x] = ventries[x]
  /\ R.ventries[x] + VarFree(R, x) = cap
  /\ \A i \in 0..(ventries[x] - 1) :
       R.mem[R.vbase[x] + i] = mem[vbase[x] + i]
  /\ E.vbase[x] = R.vbase[x]
  /\ E.ventries[x] = ventries[x] + 1
  /\ E.ventries[x] + VarFree(E, x) = cap

(* enter into the full variable x of space s leaves an array of the *)
(* number of slots that Cap gives                                   *)
GrowsTo(Cap(_, _)) ==
  \A s \in SP : \A x \in Vars(s) :
    Full(s, x) =>
      \A R \in {Resize([Cur EXCEPT !.n_sub[s] = @ + 1], s, x)} :
      \A E \in {EnterProp(Cur, s, x, Least(LivePropsOf(s)), 0)} :
        Grown(R, E, s, x, Cap(s, x))

(* the number of slots as stated: n + 4 for an array in the subscription *)
(* region, 1.5 (n + 1) rounded up for any other                          *)
StatedCap(s, x) ==
  IF vbase[x] = NULL THEN 4
  ELSE IF InRegion(s, x) THEN ventries[x] + 4
  ELSE (3 * (ventries[x] + 1) + 1) \div 2

(* the number of slots that resize computes: n + 4 for an array that    *)
(* begins in the first n_sub slots from subscriptions(), where n_sub is *)
(* the number of subscriptions of the space, the one being entered      *)
(* included; 1.5 (n + 1) rounded down for any other                     *)
CodeCap(s, x) ==
  IF vbase[x] = NULL THEN 4
  ELSE IF subs[s] <= vbase[x] /\ vbase[x] - subs[s] <= n_sub[s]
  THEN ventries[x] + 4
  ELSE (3 * (ventries[x] + 1)) \div 2

(* C31 as stated: a subscription entered into a variable without free  *)
(* slot gives a variable without array an array of 4 slots, makes an   *)
(* array of n entries in the subscription region grow to n + 4 slots   *)
(* and any other to 1.5 (n + 1) slots, rounded up; the n entries are   *)
(* kept in their order, and entries plus free slots is the new number  *)
(* of slots.                                                           *)
C31_GrowthAsStated == GrowsTo(StatedCap)

(* C31 amended: as stated, but an array counts as lying in the region  *)
(* if it begins less than n_sub slots after subscriptions(), n_sub     *)
(* being the current number of subscriptions of the space with the new *)
(* one, and any other array grows to 1.5 (n + 1) slots rounded down.   *)
C31_Growth == GrowsTo(CodeCap)

(* in the clone an array of one entry that lay in the subscription      *)
(* region has grown to three slots, after cancels had brought n_sub     *)
(* below its offset in the region; it holds two entries in a new block  *)
C31_Witness ==
  /\ exists[2]
  /\ \E x \in Vars(2) :
       /\ ventries[x] = 2 /\ VarFree(Cur, x) = 1
       /\ vbase[x] >= subs[2] + n_sub[1]

(***************************************************************************)
(* Partial fixpoints: ES_FIX_PARTIAL and ES_NOFIX_PARTIAL.                 *)
(***************************************************************************)
(* status() of space s is about to execute a propagator that may ask for more *)
Executing(s) ==
  /\ exists[s] /\ mode[s] = "run"
  /\ ~SpaceFailed(Cur, s) /\ ~SpaceStable(Cur, s)
  /\ executed[s] + 1 < MaxExec

(* the events scheduled on the executed propagator while it runs with *)
(* the effect eff                                                     *)
AccumulatedBy(s, eff) ==
  SideEffect([Cur EXCEPT !.u[Picked(Cur, s)] = 0], s, eff, NULL).u[Picked(Cur, s)]

(* in R propagator p has the pending delta d, which is not zero, and is *)
(* the last of the queue of its cost and in no other queue              *)
Requeued(R, s, p, d) ==
  /\ R.u[p] = d /\ d # ME_GEN_NONE /\ R.pst[p] = "live"
  /\ \E k \in {CostOf(R, p)} :
       /\ R.fifo[s][k] # <<>> /\ R.fifo[s][k][Len(R.fifo[s][k])] = p
       /\ R.prev[Queue(s, k)] = p /\ R.next[p] = Queue(s, k)
       /\ R.active[s] >= Queue(s, k)
       /\ \A j \in 0..PC_MAX : j # k => p \notin Range(R.fifo[s][j])

NextBranch ==
  \/ Post(1) /\ \A p \in Props(1) : pcost'[p] # PC_LINEAR_LO
  \/ PostBranching(1)
  \/ Turn(2) /\ Post(2) /\ \A p \in Props(2) : pcost'[p] = PC_UNARY_LO
  \/ Turn(2) /\ PostBranching(2)
  \/ \E s \in SP : Turn(s) /\ lastOp[s] # "status" /\ Status(s)
  \/ \E s \in SP : Turn(s) /\ Propagate(s) /\ hist'[s].outcome \in Final
  \/ \E s \in SP : Turn(s) /\ Return(s)
  \/ \E s \in SP : Turn(s) /\ lastOp[s] = "status" /\ Describe(s)
  \/ \E s \in SP : Turn(s) /\ exists[2] /\ lastOp[s] \in {"clone", "none"}
                       /\ DoCommit(s)
  \/ Clone
  \/ lastOp[1] = "clone" /\ Drop

SpecBranch == Init /\ [][NextBranch]_vars

(* the actors of space s in the order of its list of actors *)
ActorList(s) == ListOf(Cur, AActors(s))

(* the branchings of space s that have been constructed *)
Made(s) == {b \in Brans(s) : bst[b] # "free"}

(* the ids along the list of actors increase, and the branchings come *)
(* after the propagators                                              *)
Ascending(s) ==
  \A L \in {ActorList(s)} :
    \A i, j \in 1..Len(L) :
      /\ (i < j /\ L[i] \in Brans(s) /\ L[j] \in Brans(s))
           => bid[L[i]] < bid[L[j]]
      /\ (L[i] \in Props(s) /\ L[j] \in Brans(s)) => i < j

(* a branching posted to space s now gets an id above the ids of all *)
(* branchings the space has or had, and the counter goes up          *)
PostedAbove(s) ==
  (Ready(s) /\ FreeBran(Cur, s) # {}) =>
    \A b \in {Least(FreeBran(Cur, s))}, alt \in BOOLEAN :
      \A R \in {BranchingCtor(Cur, s, b, alt)} :
        /\ \A o \in Made(s) : R.bid[o] = bid[o] /\ R.bid[b] > bid[o]
        /\ R.branch_id[s] > branch_id[s] /\ R.branch_id[s] > R.bid[b]
        /\ R.prev[AActors(s)] = b

(* C33: within a space the ids of the branchings are pairwise distinct and *)
(* increase from the first to the last branching of the list of actors,    *)
(* every branching lies after every idle propagator of the list, the       *)
(* counter lies above every id given out, and a branching posted to a      *)
(* clone gets an id above every id the clone took over from the original   *)
C33_BranchIds ==
  /\ \A s \in SP : exists[s] =>
       /\ Ascending(s)
       /\ \A b, o \in Made(s) : b # o => bid[b] # bid[o]
       /\ \A b \in Made(s) : bid[b] < branch_id[s]
       /\ PostedAbove(s)
  /\ JustCloned =>
       /\ branch_id[2] = branch_id[1]
       /\ \A b \in Made(2) : Twin(b) \in Made(1) /\ bid[b] = bid[Twin(b)]

(* the clone took over a branching and a branching was posted to it, the *)
(* original has an idle propagator before its branching                  *)
C33_Witness ==
  /\ exists[2] /\ Cardinality({b \in Brans(2) : bst[b] = "live"}) = 2
  /\ \E b \in Brans(2) : bst[b] = "live" /\ bst[Twin(b)] = "free"
  /\ \E p \in Props(1) : p \in Range(ActorList(1))
  /\ \E b \in Brans(1) : b \in Range(ActorList(1))

(***************************************************************************)
(* b_commit and the branchings that descriptions refer to.                 *)
(***************************************************************************)
(* branching b of space s is live and at or after b_commit in the list of *)
(* actors: a commit reaches it                                            *)
AvailableIn(W, s, b) ==
  /\ W.bst[b] = "live"
  /\ \E L \in {ListOf(W, AActors(s))} :
       \E i, j \in 1..Len(L) : i <= j /\ L[i] = W.b_commit[s] /\ L[j] = b

(* b_commit refers to no branching or to a live one of the list *)
RefersIn(W, s) ==
  W.b_commit[s] = AActors(s) \/ AvailableIn(W, s, W.b_commit[s])

(* a commit of a description of an available branching finds it *)
FindsIn(W, s) ==
  (W.exists[s] /\ W.mode[s] = "idle" /\ ~SpaceFailed(W, s)) =>
    \A d \in W.descs, b \in Brans(s) :
      (AvailableIn(W, s, b) /\ W.bid[b] = d.id) =>
        \A a \in 0..(Alternatives(d) - 1) :
          \A R \in {Commit(W, s, d, a, <<>>, FALSE, "ES_OK")} :
            /\ R.lastRes[s] = "ES_OK" /\ R.hist[s].target = b
            /\ R.b_commit[s] = b /\ AvailableIn(R, s, b)

(* the step commits in space s a description of a branching after b, or *)
(* one whose branching is not available any more (out of order)         *)
Passed(s, b) ==
  /\ lastOp'[s] = "commit"
  /\ \/ hist'[s].did > bid[b]
     \/ ~\E o \in Brans(s) : AvailableIn(Cur, s, o) /\ bid[o] = hist'[s].did

(* a branching with a description stays available over the step *)
Kept(s) ==
  \A b \in Brans(s) :
    (AvailableIn(Cur, s, b) /\ (\E d \in descs : d.id = bid[b])
       /\ ~Passed(s, b))
      => AvailableIn(Cur', s, b)

PostFailed(s) ==
  /\ Ready(s) /\ SpaceFailed(Cur, s) /\ FreeProp(Cur, s) # {}
  /\ \E cost \in Costs, x \in FirstVar(s), pc \in 0..pc_max, me \in {ME_OTHER} :
       \E p \in {Least(FreeProp(Cur, s))} :
       \E W1 \in {PropagatorCtor(Cur, s, p, cost)} :
         /\ Subscribable(W1, s, x)
         /\ \E W2 \in {SubscribeProp(W1, s, x, p, pc, FALSE, me, TRUE)} :
              Store(Returned(W2, s, "post", "none", NoHist))

NextFail ==
  \/ Post(1)
  \/ PostBranching(1)
  \/ Status(1)
  \/ Propagate(1)
  \/ Return(1)
  \/ Describe(1)
  \/ DoCommit(1)
  \/ Fail(1)
  \/ PostFailed(1)

SpecFail == Init /\ [][NextFail]_vars

(* C35: once failed() is true it stays true under every later operation, *)
(* subscribing and scheduling a propagator included, and every later     *)
(* status() returns SS_FAILED without executing a propagator             *)
C35_FailurePermanent ==
  [][\A s \in SP : (exists[s] /\ SpaceFailed(Cur, s)) =>
       /\ SpaceFailed(Cur', s)
       /\ executed'[s] = executed[s] /\ mode'[s] = "idle"
       /\ lastOp'[s] = "status" => lastRes'[s] = "SS_FAILED"]_vars

(***************************************************************************)
(* Termination of status().  A call of status() is one run of a loop: once *)
(* called it executes the next propagator or returns, so its steps are     *)
(* taken as long as they are enabled.  After MaxExec executions the        *)
(* propagators return ES_FAILED, ES_FIX or subsumption and modify no       *)
(* variable.                                                               *)
(***************************************************************************)
NextLive ==
  \/ Post(1)
  \/ Status(1)
  \/ Propagate(1)
  \/ Return(1)

SpecLive ==
  /\ Init /\ [][NextLive]_vars
  /\ WF_vars(Propagate(1)) /\ WF_vars(Return(1))

(* status() of space s has returned *)
StatusDone(s) == mode[s] = "idle" /\ lastOp[s] = "status"

(* the space is failed, or it is at a fixpoint: no propagator in a queue, *)
(* active below queue[0]                                                  *)
FailedOrFixpoint(s) ==
  \/ SpaceFailed(Cur, s)
  \/ /\ active[s] < Queue(s, 0)
     /\ \A c \in 0..PC_MAX : QueueEmpty(Cur, Queue(s, c)) /\ fifo[s][c] = <<>>

(* C36: when the executed propagators raise no new events from some point *)
(* on, status() eventually returns, and when it has returned the space is *)
(* failed or no propagator remains in a queue and active is below         *)
(* queue[0]                                                               *)
C36_StatusTerminates ==
  /\ [](StatusDone(1) => FailedOrFixpoint(1))
  /\ (mode[1] = "run") ~> (StatusDone(1) /\ FailedOrFixpoint(1))

(* status() has executed MaxExec propagators and one is still queued *)
C36_Witness ==
  /\ mode[1] = "run" /\ executed[1] >= MaxExec
  /\ ~SpaceFailed(Cur, 1) /\ Queued(1) # {}

=============================================================================
